---------------------------- MODULE Spec2Model ----------------------------
(***************************************************************************)
(* Liveness engine (src/src/services/livenessEngine.ts) and the frame      *)
(* pump that drives it (src/src/components/FaceLiveness.tsx).              *)
(*                                                                         *)
(* Numbers.  Nod, shake and mouth ratios are kept in hundredths, so the    *)
(* thresholds 0.05, 0.06 and 0.5 of LIVENESS_CONFIG read 5, 6 and 50.      *)
(* Eye ratios (width / height) are kept as they are; the inputs are chosen *)
(* so that every division is exact.  The blink average eyeAvg is the exact *)
(* rational num / 10^exp.  A nullable value is the empty tuple (null) or a *)
(* one-element tuple.  Floating point rounding is not modelled.            *)
(***************************************************************************)
EXTENDS Integers, Sequences, FiniteSets, TLC

VARIABLES
    state,      \* LivenessEngine.state : LivenessComputationState
    pc,         \* per processFrame call: the await it is suspended at
    ret,        \* the ProcessFrameResult of the call that settled last
    session,    \* number of startSession calls so far
    hist,       \* history: what the settled frames showed (read by no action)
    ui,         \* FaceLiveness component: React state, refs, effect closures
    models,     \* LivenessEngine.modelsLoaded, the two model sessions, the warmup calls
    keyFrame,   \* FaceLiveness component: the best frame and the scores shown
    probe       \* argument and result of the function a specification applies

vars == <<state, pc, ret, session, hist, ui, models, keyFrame, probe>>

\* the variables that the engine and the frame pump leave alone
sideVars == <<keyFrame, probe>>

-----------------------------------------------------------------------------
(* Nullable values *)

None == <<>>

Some(x) == <<x>>

IsNull(o) == o = <<>>

Val(o) == o[1]

Min2(a, b) == IF a <= b THEN a ELSE b

Max2(a, b) == IF a >= b THEN a ELSE b

RECURSIVE Pow10(_)
Pow10(n) == IF n = 0 THEN 1 ELSE 10 * Pow10(n - 1)

-----------------------------------------------------------------------------
(* Bounds of the model *)

MaxCalls == 1

MaxSessions == 2

MaxEmaSteps == 1

\* warmup calls that can be in progress at once
MaxWarmups == 3

\* results handled by the component while the key frame is tracked
MaxFrames == 3

\* side, in pixels, of the square images the scoring functions are applied to
GraySide == 2

\* anchors of the detector's output
MaxAnchors == 3

\* calls of detectFromElement on one frame
MaxDetects == 2

-----------------------------------------------------------------------------
(* Program constants *)

nodPitch == 5

shakeYaw == 6

mouthThreshold == 50

INITIAL_BLINK_AVG == 10

BLINK_THRESHOLD_LOW == 5

BLINK_THRESHOLD_HIGH == 20

BLINK_AVG_WEIGHT_CURRENT == 1

BLINK_AVG_WEIGHT_PREVIOUS == 9

Infinity == 1000

MIN_LANDMARKS == 98

LIVENESS_STAGES == <<"nod", "shake", "blink", "mouth">>

IsFiniteNum(x) == x # Infinity

-----------------------------------------------------------------------------
(* Session state *)

EmptyRange == [min |-> None, max |-> None]

createLivenessComputationState ==
    [ active      |-> FALSE,
      stageIndex  |-> 0,
      progress    |-> 0,
      completed   |-> FALSE,
      lastMetrics |-> None,
      nodRange    |-> EmptyRange,
      shakeRange  |-> EmptyRange,
      blink       |-> [ closedDetected |-> FALSE,
                        openDetected   |-> FALSE,
                        eyeAvg         |-> [num |-> INITIAL_BLINK_AVG, exp |-> 0] ],
      mouth       |-> [ openDetected |-> FALSE, closedDetected |-> FALSE ] ]

-----------------------------------------------------------------------------
(* Geometry of one detection with landmarks.  det.nLandmarks is the length *)
(* of the landmark vector; det.info, det.eyes and det.mouthBox hold the    *)
(* coordinates the ratios are computed from.                               *)

getFaceCenterAndNose(det) ==
    IF det.nLandmarks < MIN_LANDMARKS
    THEN None
    ELSE Some([ centerX |-> det.info.centerX,
                centerY |-> det.info.centerY,
                noseX   |-> det.info.noseX,
                noseY   |-> det.info.noseY,
                width   |-> Max2(1, det.info.bboxWidth),
                height  |-> Max2(1, det.info.bboxHeight) ])

computeNodRatio(det) ==
    LET info == getFaceCenterAndNose(det)
    IN  IF IsNull(info)
        THEN None
        ELSE Some(((Val(info).centerY - Val(info).noseY) * 100) \div Val(info).height)

computeShakeRatio(det) ==
    LET info == getFaceCenterAndNose(det)
    IN  IF IsNull(info)
        THEN None
        ELSE Some(((Val(info).centerX - Val(info).noseX) * 100) \div Val(info).width)

\* updateRangeState with max = ratio in place of Math.max(max, ratio)
updateRangeStateLastMax(range, ratio) ==
    IF IsNull(ratio) \/ ~IsFiniteNum(Val(ratio))
    THEN range
    ELSE IF IsNull(range.min) \/ IsNull(range.max)
         THEN [min |-> ratio, max |-> ratio]
         ELSE [ min |-> Some(Min2(Val(range.min), Val(ratio))),
                max |-> ratio ]

updateRangeState(range, ratio) ==
    IF IsNull(ratio) \/ ~IsFiniteNum(Val(ratio))
    THEN range
    ELSE IF IsNull(range.min) \/ IsNull(range.max)
         THEN [min |-> ratio, max |-> ratio]
         ELSE [ min |-> Some(Min2(Val(range.min), Val(ratio))),
                max |-> Some(Max2(Val(range.max), Val(ratio))) ]

getSpread(range) ==
    IF IsNull(range.min) \/ IsNull(range.max)
    THEN None
    ELSE Some(Val(range.max) - Val(range.min))

resetRange(range) == [min |-> None, max |-> None]

computeBlinkRatios(det) ==
    IF IsNull(det.eyes)
    THEN None
    ELSE LET e == Val(det.eyes)
             leftRatio  == IF e.leftHeight = 0 THEN Infinity
                           ELSE e.leftWidth \div e.leftHeight
             rightRatio == IF e.rightHeight = 0 THEN Infinity
                           ELSE e.rightWidth \div e.rightHeight
         IN  Some([ leftHeight  |-> e.leftHeight,
                    rightHeight |-> e.rightHeight,
                    leftRatio   |-> leftRatio,
                    rightRatio  |-> rightRatio,
                    ratio       |-> Min2(leftRatio, rightRatio) ])

\* ratio > eyeAvg and ratio < eyeAvg for eyeAvg = num / 10^exp
AboveAvg(ratio, avg) == ratio * Pow10(avg.exp) > avg.num

BelowAvg(ratio, avg) == ratio * Pow10(avg.exp) < avg.num

\* updateBlinkAverage without its test of the limits
updateBlinkAverageUnlimited(ratio, st) ==
    IF ~IsFiniteNum(ratio)
    THEN st
    ELSE LET avg == st.blink.eyeAvg
         IN  [st EXCEPT !.blink.eyeAvg =
                 [ num |-> ratio * BLINK_AVG_WEIGHT_CURRENT * Pow10(avg.exp)
                           + avg.num * BLINK_AVG_WEIGHT_PREVIOUS,
                   exp |-> avg.exp + 1 ]]

updateBlinkAverage(ratio, st) ==
    IF ~IsFiniteNum(ratio)
    THEN st
    ELSE IF ratio < BLINK_THRESHOLD_LOW \/ ratio > BLINK_THRESHOLD_HIGH
         THEN st
         ELSE LET avg == st.blink.eyeAvg
              IN  [st EXCEPT !.blink.eyeAvg =
                      [ num |-> ratio * BLINK_AVG_WEIGHT_CURRENT * Pow10(avg.exp)
                                + avg.num * BLINK_AVG_WEIGHT_PREVIOUS,
                        exp |-> avg.exp + 1 ]]

blinkClosedDetected(m, threshold) ==
    \/ m.leftHeight = 0
    \/ m.rightHeight = 0
    \/ (AboveAvg(m.leftRatio, threshold) /\ AboveAvg(m.rightRatio, threshold))

\* open eyes, a ratio equal to the threshold counted as below it
blinkOpenDetectedOrEqual(m, threshold) ==
    /\ m.leftHeight > 0
    /\ m.rightHeight > 0
    /\ ~AboveAvg(m.leftRatio, threshold)
    /\ ~AboveAvg(m.rightRatio, threshold)

blinkOpenDetected(m, threshold) ==
    /\ m.leftHeight > 0
    /\ m.rightHeight > 0
    /\ BelowAvg(m.leftRatio, threshold)
    /\ BelowAvg(m.rightRatio, threshold)

updateBlinkState(metrics, st) ==
    IF IsNull(metrics)
    THEN st
    ELSE LET m == Val(metrics)
             threshold == st.blink.eyeAvg
             s1 == [st EXCEPT
                       !.blink.closedDetected = @ \/ blinkClosedDetected(m, threshold),
                       !.blink.openDetected   = @ \/ blinkOpenDetected(m, threshold)]
         IN  updateBlinkAverage(m.ratio, s1)

resetBlinkDetections(st, resetAverage) ==
    [st EXCEPT !.blink.closedDetected = FALSE,
               !.blink.openDetected   = FALSE,
               !.blink.eyeAvg = IF resetAverage
                                THEN [num |-> INITIAL_BLINK_AVG, exp |-> 0]
                                ELSE @]

computeMouthRatio(det) ==
    IF IsNull(det.mouthBox)
    THEN None
    ELSE IF Val(det.mouthBox).width = 0
         THEN None
         ELSE Some((Val(det.mouthBox).height * 100) \div Val(det.mouthBox).width)

updateMouthState(ratio, st) ==
    IF IsNull(ratio) \/ ~IsFiniteNum(Val(ratio))
    THEN st
    ELSE IF Val(ratio) > mouthThreshold
         THEN [st EXCEPT !.mouth.openDetected = TRUE]
         ELSE [st EXCEPT !.mouth.closedDetected = TRUE]

resetMouthState(st) ==
    [st EXCEPT !.mouth.openDetected = FALSE, !.mouth.closedDetected = FALSE]

-----------------------------------------------------------------------------
(* Stage machine *)

\* the stage checks with || in place of && for blink and mouth
StageCheckEither(key, metrics, st) ==
    CASE key = "nod"   -> ~IsNull(metrics.nodSpread) /\ Val(metrics.nodSpread) >= nodPitch
      [] key = "shake" -> ~IsNull(metrics.shakeSpread) /\ Val(metrics.shakeSpread) >= shakeYaw
      [] key = "blink" -> st.blink.closedDetected \/ st.blink.openDetected
      [] key = "mouth" -> st.mouth.closedDetected \/ st.mouth.openDetected

\* the stage checks with > in place of >= for nod and shake
StageCheckStrict(key, metrics, st) ==
    CASE key = "nod"   -> ~IsNull(metrics.nodSpread) /\ Val(metrics.nodSpread) > nodPitch
      [] key = "shake" -> ~IsNull(metrics.shakeSpread) /\ Val(metrics.shakeSpread) > shakeYaw
      [] key = "blink" -> st.blink.closedDetected /\ st.blink.openDetected
      [] key = "mouth" -> st.mouth.closedDetected /\ st.mouth.openDetected

StageCheck(key, metrics, st) ==
    CASE key = "nod"   -> ~IsNull(metrics.nodSpread) /\ Val(metrics.nodSpread) >= nodPitch
      [] key = "shake" -> ~IsNull(metrics.shakeSpread) /\ Val(metrics.shakeSpread) >= shakeYaw
      [] key = "blink" -> st.blink.closedDetected /\ st.blink.openDetected
      [] key = "mouth" -> st.mouth.closedDetected /\ st.mouth.openDetected

getCurrentStage(st) ==
    IF st.stageIndex + 1 \in DOMAIN LIVENESS_STAGES
    THEN Some(LIVENESS_STAGES[st.stageIndex + 1])
    ELSE None

\* buildStageStatus naming the stage before the current one on every frame
buildStageStatusAlways(st, justCompletedStage, justCompletedIndex) ==
    [ total              |-> Len(LIVENESS_STAGES),
      stageIndex         |-> Min2(st.stageIndex, Len(LIVENESS_STAGES) - 1),
      currentStage       |-> getCurrentStage(st),
      completed          |-> st.completed,
      justCompletedStage |-> IF st.stageIndex = 0 THEN None
                             ELSE Some(LIVENESS_STAGES[st.stageIndex]),
      justCompletedIndex |-> IF st.stageIndex = 0 THEN None
                             ELSE Some(st.stageIndex - 1) ]

buildStageStatus(st, justCompletedStage, justCompletedIndex) ==
    [ total              |-> Len(LIVENESS_STAGES),
      stageIndex         |-> Min2(st.stageIndex, Len(LIVENESS_STAGES) - 1),
      currentStage       |-> getCurrentStage(st),
      completed          |-> st.completed,
      justCompletedStage |-> justCompletedStage,
      justCompletedIndex |-> IF IsNull(justCompletedStage) THEN None
                             ELSE justCompletedIndex ]

\* evaluateStage's reset with every stage's state reset
ResetEveryStage(key, st) ==
    resetMouthState(resetBlinkDetections(
        [st EXCEPT !.nodRange = resetRange(@), !.shakeRange = resetRange(@)], FALSE))

ResetCompletedStage(key, st) ==
    CASE key = "blink" -> resetBlinkDetections(st, FALSE)
      [] key = "mouth" -> resetMouthState(st)
      [] key = "nod"   -> [st EXCEPT !.nodRange = resetRange(@)]
      [] key = "shake" -> [st EXCEPT !.shakeRange = resetRange(@)]

\* evaluateStage's advance with stageIndex += 2
AdvanceStageSkip(st) ==
    [st EXCEPT !.stageIndex = @ + 2,
               !.progress   = ((st.stageIndex + 2) * 100) \div Len(LIVENESS_STAGES)]

AdvanceStage(st) ==
    [st EXCEPT !.stageIndex = @ + 1,
               !.progress   = ((st.stageIndex + 1) * 100) \div Len(LIVENESS_STAGES)]

\* evaluateStage's completion without active = false
MarkCompletedStillActive(st) == [st EXCEPT !.completed = TRUE]

MarkCompleted(st) == [st EXCEPT !.completed = TRUE, !.active = FALSE]

\* evaluateStage: the state it leaves and the StageStatus it returns
evaluateStage(metrics, st) ==
    LET stage == getCurrentStage(st)
    IN  IF IsNull(stage)
        THEN LET s1 == MarkCompleted(st)
             IN  [state |-> s1, stage |-> buildStageStatus(s1, None, None)]
        ELSE IF ~StageCheck(Val(stage), metrics, st)
             THEN [state |-> st, stage |-> buildStageStatus(st, None, None)]
             ELSE LET completedIndex == st.stageIndex
                      s1 == AdvanceStage(st)
                      s2 == ResetCompletedStage(Val(stage), s1)
                      s3 == IF s2.stageIndex >= Len(LIVENESS_STAGES)
                            THEN MarkCompleted(s2)
                            ELSE s2
                  IN  [ state |-> s3,
                        stage |-> buildStageStatus(s3, stage, Some(completedIndex)) ]

-----------------------------------------------------------------------------
(* LivenessEngine.warmup.  models holds                                    *)
(*   loaded     modelsLoaded                                               *)
(*   detector   the detector holds a session (SCRFDDetector.isReady)       *)
(*   landmark   the landmark estimator holds a session                     *)
(*   calls      per warmup call: "idle"; "detector" or "landmark", the     *)
(*              loadModel it awaits; "skipped" (returned at the test of    *)
(*              modelsLoaded), "resolved" or "rejected": settled and not   *)
(*              yet resumed by its caller                                  *)

Warmups == 1 .. MaxWarmups

ModelsInit ==
    [ loaded |-> FALSE, detector |-> FALSE, landmark |-> FALSE,
      calls  |-> [w \in Warmups |-> "idle"] ]

\* warmup without its test of modelsLoaded
warmupBeginAlways(m, w) == [m EXCEPT !.calls[w] = "detector"]

\* warmup up to its first await
warmupBegin(m, w) ==
    IF m.loaded
    THEN [m EXCEPT !.calls[w] = "skipped"]
    ELSE [m EXCEPT !.calls[w] = "detector"]

\* warmup with modelsLoaded = true set before the landmark model is loaded
detectorLoadedEarly(m, w) ==
    [m EXCEPT !.detector = TRUE, !.loaded = TRUE, !.calls[w] = "landmark"]

\* detector.loadModel resolves
detectorLoaded(m, w) == [m EXCEPT !.detector = TRUE, !.calls[w] = "landmark"]

\* landmarkEstimator.loadModel resolves, and warmup runs to its end
landmarkLoaded(m, w) ==
    [m EXCEPT !.landmark = TRUE, !.loaded = TRUE, !.calls[w] = "resolved"]

\* the loadModel awaited throws: no session is set, warmup rejects
loadFailed(m, w) == [m EXCEPT !.calls[w] = "rejected"]

\* the caller of warmup resumes
warmupReturned(m, w) == [m EXCEPT !.calls[w] = "idle"]

-----------------------------------------------------------------------------
(* FaceLiveness: the key frame and the scores shown with it.  A result is   *)
(* handled synchronously, so the frames captured and the scores computed by *)
(* one call of handleLivenessResult come from one video frame, named by the *)
(* number of the result (1, 2, ...).  keyFrame holds                        *)
(*   sessionState      as in the component                                  *)
(*   inFlight          a processFrame call has not delivered its result     *)
(*   frames            results handled so far                               *)
(*   poses             metrics.frontalScore of each result (None: null)     *)
(*   keyFrameScore     keyFrameScoreRef                                     *)
(*   keyFrameOriginal  keyFrameOriginalRef: the frame it was cut from       *)
(*   keyFrameFull      keyFrameFullRef                                      *)
(*   keyFrameImage     the state keyFrameImage                              *)
(*   frontalFaceScore  the frame whose frontal score is shown               *)
(*   scores            per quality score, the frame it was computed from    *)

\* null, for a frame
NoFrame == 0

ScoreNames ==
    {"brightness", "clarity", "uniformLighting", "backgroundUniformity",
     "pixelResolution"}

\* frontal scores of the frames
PoseScores == {40, 70}

Poses == {None} \cup {Some(p) : p \in PoseScores}

(* What the captures and the scoring functions return for a frame:          *)
(*   whole   every capture and every score returns a value                  *)
(*   edge    the face box ends within a pixel of the right edge of the      *)
(*           video: the crops of computeBrightnessScore and of              *)
(*           detectUniformLighting are at most 1 wide (null), the padded    *)
(*           crops of the captures and of estimateBlurScore are not         *)
(*   nocanvas no 2d context can be had for a canvas: the captures and the   *)
(*           scores read from one return null; evaluatePixelResolution,     *)
(*           which reads the key points, returns a value                    *)
FrameOutcomes ==
    { [captured |-> TRUE,  computed |-> ScoreNames],
      [captured |-> TRUE,
       computed |-> {"clarity", "backgroundUniformity", "pixelResolution"}],
      [captured |-> FALSE, computed |-> {"pixelResolution"}] }

NoScores == [s \in ScoreNames |-> NoFrame]

KeyFrameInit ==
    [ sessionState     |-> "IDLE",
      inFlight         |-> FALSE,
      frames           |-> 0,
      poses            |-> <<>>,
      keyFrameScore    |-> -Infinity,
      keyFrameOriginal |-> NoFrame,
      keyFrameFull     |-> NoFrame,
      keyFrameImage    |-> NoFrame,
      frontalFaceScore |-> NoFrame,
      scores           |-> NoScores ]

\* the key-frame part of handleLivenessResult with >= for >
keyFrameResultOnTie(k, pose, outcome) ==
    LET id == k.frames + 1
        k1 == [k EXCEPT !.frames = id, !.poses = Append(@, pose),
                        !.frontalFaceScore = IF IsNull(pose) THEN @ ELSE id]
    IN  IF ~IsNull(pose) /\ Val(pose) >= k.keyFrameScore
        THEN LET k2 == IF outcome.captured
                       THEN [k1 EXCEPT !.keyFrameScore = Val(pose),
                                       !.keyFrameOriginal = id,
                                       !.keyFrameFull = id,
                                       !.keyFrameImage = id]
                       ELSE k1
             IN  [k2 EXCEPT !.scores =
                     [s \in ScoreNames |->
                         IF s \in outcome.computed THEN id ELSE k2.scores[s]]]
        ELSE k1

\* handleLivenessResult up to its test of multiFaceDetected.  A result
\* without a detection has no metrics; isMobileHandoff is false while the
\* camera runs.
keyFrameResult(k, pose, outcome) ==
    LET id == k.frames + 1
        k1 == [k EXCEPT !.frames = id, !.poses = Append(@, pose),
                        !.frontalFaceScore = IF IsNull(pose) THEN @ ELSE id]
    IN  IF ~IsNull(pose) /\ Val(pose) > k.keyFrameScore
        THEN LET k2 == IF outcome.captured
                       THEN [k1 EXCEPT !.keyFrameScore = Val(pose),
                                       !.keyFrameOriginal = id,
                                       !.keyFrameFull = id,
                                       !.keyFrameImage = id]
                       ELSE k1
             IN  [k2 EXCEPT !.scores =
                     [s \in ScoreNames |->
                         IF s \in outcome.computed THEN id ELSE k2.scores[s]]]
        ELSE k1

\* the resets of startCamera, stopCamera and failSession: keyFrameFullRef
\* is left as it is
keyFrameCleared(k) ==
    [k EXCEPT !.keyFrameScore = -Infinity, !.keyFrameOriginal = NoFrame,
              !.keyFrameImage = NoFrame, !.frontalFaceScore = NoFrame,
              !.scores = NoScores]

\* the resets of runLivenessSession: the image and the score only
keyFrameRestarted(k) ==
    [k EXCEPT !.keyFrameScore = -Infinity, !.keyFrameImage = NoFrame]

-----------------------------------------------------------------------------
(* FaceLiveness: the aggregate quality score.  Scores are numbers with two  *)
(* decimals and are held in hundredths (10000 is 100.00).                   *)

\* Math.round(n / d) for n >= 0, d > 0
RoundDiv(n, d) == (2 * n + d) \div (2 * d)

\* the scores the effect reads, in the order of its array
QualityValues ==
    <<"brightness", "frontalFace", "clarity", "uniformLighting",
      "backgroundUniformity", "pixelResolution">>

RECURSIVE SumOver(_, _)
SumOver(f, names) ==
    IF names = {} THEN 0
    ELSE LET n == CHOOSE x \in names : TRUE
         IN  Val(f[n]) + SumOver(f, names \ {n})

SeqRange(q) == {q[i] : i \in 1 .. Len(q)}

\* the effect with frontalFaceScore left out of its array
qualityScoreEffectOfFive(scores, qualityScore) ==
    IF \E n \in ScoreNames : IsNull(scores[n])
    THEN qualityScore
    ELSE Some(RoundDiv(SumOver(scores, ScoreNames),
                       Cardinality(ScoreNames)))

\* the effect on the six scores: qualityScore after it has run
qualityScoreEffect(scores, qualityScore) ==
    IF \E n \in SeqRange(QualityValues) : IsNull(scores[n])
    THEN qualityScore
    ELSE Some(RoundDiv(SumOver(scores, SeqRange(QualityValues)),
                       Len(QualityValues)))

-----------------------------------------------------------------------------
(* FaceLiveness: the five quality scores.  An image is the gray array the   *)
(* function builds from its canvas (values 0..255, row by row, indices from *)
(* 1), GraySide pixels wide and high.  Real arithmetic is exact: a score is *)
(* the integer number of hundredths that Math.round(x * 100) / 100 yields.  *)

Pixels == 1 .. GraySide * GraySide

\* gray[yy * width + xx]
At(gray, x, y) == gray[y * GraySide + x + 1]

clamp(v, lo, hi) == IF v < lo THEN lo ELSE IF v > hi THEN hi ELSE v

RECURSIVE SumOf(_, _)
SumOf(f, set) ==
    IF set = {} THEN 0
    ELSE LET i == CHOOSE x \in set : TRUE
         IN  f[i] + SumOf(f, set \ {i})

Abs(x) == IF x < 0 THEN -x ELSE x

\* m * m <= b * b * x and m * m < b * b * x for m, x >= 0 and b > 0, without
\* the products (m = b * u + w)
SqLe(m, b, x) ==
    LET u == m \div b
        w == m % b
    IN  IF x < u * u THEN FALSE
        ELSE IF x >= (u + 1) * (u + 1) THEN TRUE
        ELSE 2 * b * u * w + w * w <= b * b * (x - u * u)

SqLt(m, b, x) ==
    LET u == m \div b
        w == m % b
    IN  IF x <= u * u THEN FALSE
        ELSE IF x >= (u + 1) * (u + 1) THEN TRUE
        ELSE 2 * b * u * w + w * w < b * b * (x - u * u)

\* values[index] of the sorted array, index from 0
Sorted(gray, index) ==
    CHOOSE v \in {gray[i] : i \in Pixels} :
        /\ Cardinality({i \in Pixels : gray[i] < v}) <= index
        /\ index < Cardinality({i \in Pixels : gray[i] <= v})

\* computeBrightnessScore(bbox).value on the gray array of the crop
computeBrightnessScore(gray) ==
    LET total     == Cardinality(Pixels)
        lowIndex  == (5 * (total - 1)) \div 100
        highIndex == (95 * (total - 1)) \div 100
        pLow      == Sorted(gray, lowIndex)
        pHigh     == Sorted(gray, highIndex)
        kept      == {i \in Pixels : gray[i] >= pLow /\ gray[i] <= pHigh}
        sum       == SumOf(gray, kept)
        count     == Cardinality(kept)
        \* quality = num / (255 * count), brightness = 100 * sum / (255 * count)
        num       == 25500 * count - Abs(200 * sum - 25500 * count)
    IN  IF count = 0 THEN 0
        ELSE RoundDiv(100 * Max2(0, num), 255 * count)

\* the 3 x 3 kernel k4 at (x, y), with the coordinates clamped
Laplacian(gray, x, y) ==
    LET g(dx, dy) == At(gray, clamp(x + dx, 0, GraySide - 1),
                              clamp(y + dy, 0, GraySide - 1))
    IN  g(0, -1) + g(-1, 0) - 4 * g(0, 0) + g(1, 0) + g(0, 1)

\* count * count * variance of the values f over set: count * M2
ScaledVariance(f, set) ==
    LET sq == [i \in set |-> f[i] * f[i]]
    IN  Cardinality(set) * SumOf(sq, set) - SumOf(f, set) * SumOf(f, set)

\* estimateBlurScore without Math.min(..., 100)
estimateBlurScoreUncapped(gray) ==
    LET lap   == [i \in Pixels |->
                    Laplacian(gray, (i - 1) % GraySide, (i - 1) \div GraySide)]
        count == Cardinality(Pixels)
        v     == ScaledVariance(lap, Pixels)
    IN  RoundDiv(20 * v, count * count)

\* estimateBlurScore(bbox) on the gray array of its canvas:
\* min(variance / 500 * 100, 100), and variance = v / count^2
estimateBlurScore(gray) ==
    LET lap   == [i \in Pixels |->
                    Laplacian(gray, (i - 1) % GraySide, (i - 1) \div GraySide)]
        count == Cardinality(Pixels)
        v     == ScaledVariance(lap, Pixels)
    IN  IF v >= 500 * count * count THEN 10000
        ELSE RoundDiv(20 * v, count * count)

\* detectUniformLighting(bbox) on the gray array of the crop
detectUniformLighting(gray) ==
    LET sw      == GraySide
        sh      == GraySide
        marginW == (2 * sw) \div 10
        marginH == sh \div 10
        coreW   == Max2(1, sw - marginW * 2)
        coreH   == Max2(1, sh - marginH * 2)
        mid     == coreW \div 2
        core(xs) == {(y + marginH) * sw + (x + marginW) + 1 :
                        x \in xs, y \in 0 .. coreH - 1}
        left    == core(0 .. mid - 1)
        right   == core(mid .. coreW - 1)
        lc      == Max2(1, Cardinality(left))
        rc      == Max2(1, Cardinality(right))
        \* lPct = 100 * a / d, rPct = 100 * b / d
        a       == SumOf(gray, left) * rc
        b       == SumOf(gray, right) * lc
        d       == 255 * lc * rc
        m       == Max2(Max2(100 * a, 100 * b), d)
        diff    == Abs(100 * a - 100 * b)
        \* score = 100 * (m - diff) / m; hundredths in two steps of 100
        t       == 100 * (m - diff)
        q       == 100 * (t \div m) + (100 * (t % m)) \div m
        r       == (100 * (t % m)) % m
    IN  IF 2 * r >= m THEN q + 1 ELSE q

\* the least k in lo .. hi with (2k + 1) * count >= 160 * sqrt(v):
\* Math.round(10000 - x) = 10000 - k for x = 80 * sqrt(v) / count
RECURSIVE RoundedDeviation(_, _, _, _)
RoundedDeviation(lo, hi, count, v) ==
    IF lo >= hi THEN lo
    ELSE LET k == (lo + hi) \div 2
         IN  IF ~SqLt((2 * k + 1) * count, 160, v)
             THEN RoundedDeviation(lo, k, count, v)
             ELSE RoundedDeviation(k + 1, hi, count, v)

\* analyzeBackgroundUniformity(bbox) on the gray array of the blurred frame;
\* face holds the pixels of the padded face box (mask 0)
analyzeBackgroundUniformity(gray, face) ==
    LET rest  == Pixels \ face
        count == Cardinality(rest)
        v     == ScaledVariance(gray, rest)
    IN  IF count = 0 THEN 0
        \* stdDev * 0.8 >= 100
        ELSE IF v >= 15625 * count * count THEN 0
        ELSE 10000 - RoundedDeviation(0, 10000, count, v)

\* the greatest k in lo .. hi with k = 0 or m(k) <= b * sqrt(x), where
\* m(k) = c * (2k - 1) + e
RECURSIVE RoundedRoot(_, _, _, _, _, _)
RoundedRoot(lo, hi, c, e, b, x) ==
    IF lo >= hi THEN lo
    ELSE LET k == (lo + hi + 1) \div 2
         IN  IF SqLe(c * (2 * k - 1) + e, b, x)
             THEN RoundedRoot(k, hi, c, e, b, x)
             ELSE RoundedRoot(lo, k - 1, c, e, b, x)

\* evaluatePixelResolution(kps); iod2 is dx * dx + dy * dy of the first two
\* key points, None when there are fewer than two
evaluatePixelResolution(iod2) ==
    IF IsNull(iod2) THEN None
    ELSE LET x == Val(iod2)
         IN  IF x < 80 * 80
             \* (iod / 80) * 60, in hundredths 75 * iod
             THEN Some(RoundedRoot(0, 6000, 1, 0, 150, x))
             ELSE IF x >= 300 * 300 THEN Some(10000)
             \* 60 + (iod - 80) / 220 * 40, in hundredths
             \* 6000 + (400 * iod - 32000) / 11
             ELSE Some(6000 + RoundedRoot(0, 4000, 11, 32000, 400, x))

-----------------------------------------------------------------------------
(* SCRFDDetector: from the outputs of the network to the detections.  There *)
(* is one feature map, one row of MaxAnchors anchors; the network gives, per *)
(* anchor, a score (in hundredths) and four distances (in strides).         *)
(* Coordinates are integers.                                                *)

\* _featStrideFpn[0]
featStride == 8

\* the default of detectFromElement's threshold and of detectionThreshold
detectionThreshold == 50

\* nmsThresh = 0.4, as a fraction
nmsThresh == <<2, 5>>

Anchors == 1 .. MaxAnchors

\* getAnchorCenters for a map of height 1: (x * stride, y * stride)
getAnchorCenters(i) == <<(i - 1) * featStride, 0>>

\* distance2bbox for one anchor
distance2bbox(point, distance) ==
    << point[1] - distance[1], point[2] - distance[2],
       point[1] + distance[3], point[2] + distance[4] >>

\* postprocess: the anchors whose score reaches the threshold, in order, with
\* their score and decoded box; None is the null of concatFloat32 for no
\* anchor at all
postprocess(outs, threshold) ==
    LET decoded(i) ==
            [ score |-> outs[i].score,
              bbox  |-> distance2bbox(getAnchorCenters(i),
                            [k \in 1 .. 4 |-> outs[i].bboxPreds[k] * featStride]) ]
        RECURSIVE Pos(_)
        Pos(i) == IF i > Len(outs) THEN <<>>
                  ELSE IF outs[i].score >= threshold
                       THEN <<decoded(i)>> \o Pos(i + 1)
                       ELSE Pos(i + 1)
    IN  IF Pos(1) = <<>> THEN None ELSE Some(Pos(1))

\* iou(boxA, boxB) as <<numerator, denominator>>, denominator > 0
iou(boxA, boxB) ==
    LET x1    == Max2(boxA[1], boxB[1])
        y1    == Max2(boxA[2], boxB[2])
        x2    == Min2(boxA[3], boxB[3])
        y2    == Min2(boxA[4], boxB[4])
        w     == Max2(0, x2 - x1 + 1)
        h     == Max2(0, y2 - y1 + 1)
        inter == w * h
        areaA == (boxA[3] - boxA[1] + 1) * (boxA[4] - boxA[2] + 1)
        areaB == (boxB[3] - boxB[1] + 1) * (boxB[4] - boxB[2] + 1)
        union == areaA + areaB - inter
    IN  IF union <= 0 THEN <<0, 1>> ELSE <<inter, union>>

\* iou > this.nmsThresh
OverThresh(f) == f[1] * nmsThresh[2] > nmsThresh[1] * f[2]

\* objects.sort((a, b) => b.score - a.score): by score, highest first, equal
\* scores in their order
RECURSIVE SortByScore(_)
SortByScore(objects) ==
    IF objects = <<>> THEN <<>>
    ELSE LET i == CHOOSE i \in 1 .. Len(objects) :
                      /\ \A j \in 1 .. Len(objects) :
                             objects[j].score <= objects[i].score
                      /\ \A j \in 1 .. i - 1 :
                             objects[j].score < objects[i].score
             rest == [j \in 1 .. Len(objects) - 1 |->
                         IF j < i THEN objects[j] ELSE objects[j + 1]]
         IN  <<objects[i]>> \o SortByScore(rest)

\* the while loop of nms
RECURSIVE NmsLoop(_, _)
NmsLoop(objects, keep) ==
    IF objects = <<>> THEN keep
    ELSE LET current == Head(objects)
             Kept(candidate) == ~OverThresh(iou(current.bbox, candidate.bbox))
         IN  NmsLoop(SelectSeq(Tail(objects), Kept), Append(keep, current))

\* nms whose loop removes nothing
nmsKeepAll(detections) ==
    IF detections = <<>> THEN detections
    ELSE SortByScore(detections)

nms(detections) ==
    IF detections = <<>> THEN detections
    ELSE NmsLoop(SortByScore(detections), <<>>)

\* buildDetections: the boxes divided by detScale, then nms
buildDetections(decoded, detScale) ==
    IF IsNull(decoded) THEN <<>>
    ELSE nms([i \in 1 .. Len(Val(decoded)) |->
                 [ bbox  |-> [k \in 1 .. 4 |-> Val(decoded)[i].bbox[k] \div detScale],
                   score |-> Val(decoded)[i].score ]])

\* detectFromElement without its test of the session: session.run on null
detectFromElementUnchecked(loaded, outs, threshold, detScale) ==
    IF ~loaded
    THEN [error |-> "TypeError", detections |-> <<>>]
    ELSE [error |-> "none",
          detections |-> buildDetections(postprocess(outs, threshold), detScale)]

\* detectFromElement: what the call throws or resolves to; loaded is
\* session && inputName, outs the result of session.run
detectFromElement(loaded, outs, threshold, detScale) ==
    IF ~loaded
    THEN [error |-> "ModelNotLoaded", detections |-> <<>>]
    ELSE [error |-> "none",
          detections |-> buildDetections(postprocess(outs, threshold), detScale)]

-----------------------------------------------------------------------------
(* LivenessEngine: the session calls and the steps of processFrame *)

startSession(st) ==
    LET s0 == [createLivenessComputationState EXCEPT !.active = TRUE]
        s1 == resetBlinkDetections(s0, TRUE)
        s2 == resetMouthState(s1)
    IN  [s2 EXCEPT !.nodRange = resetRange(@), !.shakeRange = resetRange(@)]

stopSession(st) == [st EXCEPT !.active = FALSE]

\* a ProcessFrameResult without a face: detection null, metrics null
EmptyResult(st, multi) ==
    [ detection         |-> None,
      metrics           |-> None,
      stage             |-> buildStageStatus(st, None, None),
      multiFaceDetected |-> multi ]

\* processFrame without a primary face, resetting both ranges as well
NoPrimaryFaceRestart(st, n) ==
    LET s1 == [st EXCEPT !.lastMetrics = None,
                         !.nodRange = resetRange(@), !.shakeRange = resetRange(@)]
    IN  [state |-> s1, result |-> EmptyResult(s1, n > 1)]

\* processFrame after the detector returned n faces, n # 1
NoPrimaryFace(st, n) ==
    LET s1 == [st EXCEPT !.lastMetrics = None]
    IN  [state |-> s1, result |-> EmptyResult(s1, n > 1)]

\* processFrame without landmarks, dropping what the blink stage has seen
NoLandmarksRestart(st) ==
    LET s1 == resetBlinkDetections([st EXCEPT !.lastMetrics = None], FALSE)
    IN  [state |-> s1, result |-> EmptyResult(s1, FALSE)]

\* processFrame after the landmark estimator returned null
NoLandmarks(st) ==
    LET s1 == [st EXCEPT !.lastMetrics = None]
    IN  [state |-> s1, result |-> EmptyResult(s1, FALSE)]

\* processFrame from the estimate on: synchronous to its return
AcceptedFrame(st, det) ==
    LET nodRatio     == computeNodRatio(det)
        shakeRatio   == computeShakeRatio(det)
        s1           == [st EXCEPT !.nodRange   = updateRangeState(@, nodRatio),
                                   !.shakeRange = updateRangeState(@, shakeRatio)]
        nodSpread    == getSpread(s1.nodRange)
        shakeSpread  == getSpread(s1.shakeRange)
        blinkMetrics == computeBlinkRatios(det)
        s2           == updateBlinkState(blinkMetrics, s1)
        mouthRatio   == computeMouthRatio(det)
        s3           == updateMouthState(mouthRatio, s2)
        metrics      == [ nodRatio    |-> nodRatio,
                          nodSpread   |-> nodSpread,
                          shakeRatio  |-> shakeRatio,
                          shakeSpread |-> shakeSpread,
                          blink       |-> blinkMetrics,
                          mouthRatio  |-> mouthRatio ]
        s4           == [s3 EXCEPT !.lastMetrics = Some(metrics)]
        ev           == evaluateStage(metrics, s4)
    IN  [ state  |-> ev.state,
          result |-> [ detection         |-> Some(det),
                       metrics           |-> Some(metrics),
                       stage             |-> ev.stage,
                       multiFaceDetected |-> FALSE ] ]

-----------------------------------------------------------------------------
(* Inputs: what the detector and the landmark estimator can return *)

FaceCounts == {0, 1, 2}

NoseYs == {0, 3, 5}

NoseXs == {0, 6}

EyeShapes ==
    { [leftHeight |-> 1, rightHeight |-> 1, leftWidth |-> 4,  rightWidth |-> 4],
      [leftHeight |-> 1, rightHeight |-> 1, leftWidth |-> 8,  rightWidth |-> 8],
      [leftHeight |-> 1, rightHeight |-> 1, leftWidth |-> 10, rightWidth |-> 10],
      [leftHeight |-> 1, rightHeight |-> 1, leftWidth |-> 15, rightWidth |-> 15],
      [leftHeight |-> 0, rightHeight |-> 0, leftWidth |-> 8,  rightWidth |-> 8] }

MouthShapes ==
    { [width |-> 0, height |-> 5], [width |-> 10, height |-> 5], [width |-> 10, height |-> 7] }

FaceInfo(x, y) ==
    [ centerX |-> 0, centerY |-> 0, noseX |-> x, noseY |-> y,
      bboxWidth |-> 100, bboxHeight |-> 100 ]

Frame(x, y, e, m) ==
    [ nLandmarks |-> 98, info |-> FaceInfo(x, y), eyes |-> Some(e), mouthBox |-> Some(m) ]

RestingEyes == [leftHeight |-> 1, rightHeight |-> 1, leftWidth |-> 4, rightWidth |-> 4]

ShutEyes == [leftHeight |-> 0, rightHeight |-> 0, leftWidth |-> 8, rightWidth |-> 8]

RestingMouth == [width |-> 10, height |-> 5]

OpenMouth == [width |-> 10, height |-> 7]

\* frames that move the head, frames that move the eyes, frames that move
\* the mouth, and one frame that does all at once
FullDetections ==
    { Frame(x, y, RestingEyes, RestingMouth) : x \in NoseXs, y \in NoseYs }
    \cup { Frame(0, 0, e, RestingMouth) : e \in EyeShapes }
    \cup { Frame(0, 0, RestingEyes, m) : m \in MouthShapes }
    \cup { Frame(6, 5, ShutEyes, OpenMouth) }

\* a landmark vector too short for any of the indices 60..97
ShortDetection ==
    [ nLandmarks |-> 60, info |-> FaceInfo(0, 0), eyes |-> None, mouthBox |-> None ]

Detections == FullDetections \cup {ShortDetection}

Estimates == {None} \cup {Some(d) : d \in Detections}

\* the frame moves eyeAvg (its blink ratio is finite and within the limits)
MovesAverage(det) ==
    LET b == computeBlinkRatios(det)
    IN  /\ ~IsNull(b)
        /\ IsFiniteNum(Val(b).ratio)
        /\ Val(b).ratio >= BLINK_THRESHOLD_LOW
        /\ Val(b).ratio <= BLINK_THRESHOLD_HIGH

-----------------------------------------------------------------------------
(* History of the settled frames.  No action reads it.                     *)
(*   window    what the accepted frames showed while the stage             *)
(*             window.stage of session window.session was current         *)
(*   obs       what the accepted frames showed since the last startSession *)
(*   ownFrames a call issued since the last startSession got past the      *)
(*             detector                                                    *)
(*   faces     the detector's face count in the call that settled last     *)
(*   landmarks the estimator returned landmarks in the call that settled   *)
(*             last                                                        *)

NoObs == [closed |-> FALSE, open |-> FALSE, mouthOpen |-> FALSE, mouthClosed |-> FALSE]

FreshWindow(s, k) ==
    [ session |-> s, stage |-> k, nodRange |-> EmptyRange, shakeRange |-> EmptyRange,
      obs |-> NoObs ]

HistInit ==
    [ window |-> FreshWindow(0, 0), obs |-> NoObs, ownFrames |-> FALSE, faces |-> None,
      landmarks |-> FALSE ]

\* how the frame det is classified against the state st it meets
FrameObs(st, det) ==
    LET b == computeBlinkRatios(det)
        m == computeMouthRatio(det)
    IN  [ closed      |-> ~IsNull(b) /\ blinkClosedDetected(Val(b), st.blink.eyeAvg),
          open        |-> ~IsNull(b) /\ blinkOpenDetected(Val(b), st.blink.eyeAvg),
          mouthOpen   |-> ~IsNull(m) /\ Val(m) > mouthThreshold,
          mouthClosed |-> ~IsNull(m) /\ Val(m) <= mouthThreshold ]

JoinObs(a, b) ==
    [ closed      |-> a.closed \/ b.closed,
      open        |-> a.open \/ b.open,
      mouthOpen   |-> a.mouthOpen \/ b.mouthOpen,
      mouthClosed |-> a.mouthClosed \/ b.mouthClosed ]

HistAccepted(h, st, s, issued, det) ==
    LET w0  == IF h.window.session = s /\ h.window.stage = st.stageIndex
               THEN h.window
               ELSE FreshWindow(s, st.stageIndex)
        o   == FrameObs(st, det)
        w1  == [w0 EXCEPT !.nodRange   = updateRangeState(@, computeNodRatio(det)),
                          !.shakeRange = updateRangeState(@, computeShakeRatio(det)),
                          !.obs        = JoinObs(@, o)]
    IN  [ window    |-> w1,
          obs       |-> JoinObs(h.obs, o),
          ownFrames |-> h.ownFrames \/ issued = s,
          faces     |-> Some(1),
          landmarks |-> TRUE ]

HistNoFace(h, s, issued, n) ==
    [h EXCEPT !.ownFrames = @ \/ issued = s, !.faces = n, !.landmarks = FALSE]

-----------------------------------------------------------------------------
(* The FaceLiveness component.  ui holds                                   *)
(*   sessionState, isCameraActive, isEngineReady, isLoadingModels, result  *)
(*       the React state as last set                                       *)
(*   closure   the values of that state in the last committed render: what *)
(*             the effects and callbacks created by that render read       *)
(*   scores    "set": a result handler set score state not yet committed;  *)
(*             "quality": the qualityScore effect set state not yet        *)
(*             committed; "clean" otherwise                                *)
(*   busy, cooldown, delay, currentStageKey, stageStart                    *)
(*       engineBusyRef, isStageCooldownRef, completionDelayRef,            *)
(*       currentStageKeyRef, stageStartTimeRef # null                      *)
(*   cooldownTimer, delayTimer   the pending setTimeout of each ref        *)
(*   loop, tick   the live instance of the inference loop effect and of    *)
(*             the stage progress effect: live, and raf when an animation  *)
(*             frame callback of it is pending                             *)
(*   calls     per processFrame call issued by the loop: cancelled when    *)
(*             the effect instance that issued it was cleaned up, and cs,  *)
(*             the sessionState its handleLivenessResult closure holds     *)
(*   run       "warmup" while runLivenessSession awaits engine.warmup()    *)
(*   overlap   the loop has issued a processFrame call while an earlier    *)
(*             one had not settled                                         *)
(* Time is not measured: a timer may fire, and a stage may time out, at    *)
(* any moment it is pending.                                               *)

\* the processFrame calls that can be suspended at once
Calls == 1 .. MaxCalls

IdleCall == [at |-> "idle", session |-> 0]

\* the calls that have not settled
InFlight(p) == {c \in DOMAIN p : p[c].at # "idle"}

NoInstance == [live |-> FALSE, raf |-> FALSE]

NewInstance == [live |-> TRUE, raf |-> TRUE]

ReactState(u) ==
    [ sessionState    |-> u.sessionState,
      isCameraActive  |-> u.isCameraActive,
      isEngineReady   |-> u.isEngineReady,
      isLoadingModels |-> u.isLoadingModels ]

NoCall == [cancelled |-> FALSE, cs |-> "IDLE"]

UiInit ==
    [ mounted         |-> TRUE,
      camera          |-> "starting",
      sessionState    |-> "IDLE",
      isCameraActive  |-> FALSE,
      isEngineReady   |-> FALSE,
      isLoadingModels |-> FALSE,
      result          |-> None,
      closure         |-> [ sessionState |-> "IDLE", isCameraActive |-> FALSE,
                            isEngineReady |-> FALSE, isLoadingModels |-> FALSE ],
      scores          |-> "clean",
      busy            |-> FALSE,
      cooldown        |-> FALSE,
      delay           |-> FALSE,
      currentStageKey |-> None,
      stageStart      |-> FALSE,
      cooldownTimer   |-> None,
      delayTimer      |-> None,
      loop            |-> NoInstance,
      tick            |-> NoInstance,
      calls           |-> [c \in Calls |-> NoCall],
      run             |-> "none",
      overlap         |-> FALSE ]

resetStageTimer(u, stageKey) ==
    [u EXCEPT !.currentStageKey = stageKey, !.stageStart = TRUE]

startStageCooldown(u, nextStageKey) ==
    [u EXCEPT !.cooldown = TRUE, !.stageStart = FALSE, !.cooldownTimer = Some(nextStageKey)]

\* the refs and state that finishSession and failSession both reset
EndSessionRefs(u) ==
    [u EXCEPT !.cooldown = FALSE, !.delay = FALSE,
              !.isEngineReady = FALSE, !.isLoadingModels = FALSE,
              !.stageStart = FALSE, !.currentStageKey = None,
              !.tick.raf = FALSE,
              !.cooldownTimer = None, !.delayTimer = None]

\* finishSession as created by a render whose sessionState was cs
finishSession(u, st, cs) ==
    IF cs \in {"COMPLETED", "FAILED"}
    THEN [ui |-> u, state |-> st]
    ELSE [ ui    |-> [EndSessionRefs(u) EXCEPT !.sessionState = "COMPLETED",
                                               !.result = Some("PASS")],
           state |-> stopSession(st) ]

\* failSession as created by a render whose sessionState was cs
failSession(u, st, cs) ==
    IF cs \in {"COMPLETED", "FAILED"}
    THEN [ui |-> u, state |-> st]
    ELSE [ ui    |-> [EndSessionRefs(u) EXCEPT !.busy = FALSE,
                                               !.sessionState = "FAILED",
                                               !.result = Some("FAIL")],
           state |-> stopSession(st) ]

\* handleLivenessResult from the stage timer on, for the result res
TrackStage(u, st, res, cs) ==
    LET activeStage == res.stage.currentStage
        u1 == IF ~IsNull(activeStage) /\ activeStage # u.currentStageKey
              THEN resetStageTimer(u, activeStage)
              ELSE IF cs = "IN_PROGRESS" /\ ~u.stageStart
                   THEN resetStageTimer(u, activeStage)
                   ELSE u
    IN  IF res.stage.completed
        THEN finishSession(u1, st, cs)
        ELSE [ui |-> u1, state |-> st]

\* handleLivenessResult as created by a render whose sessionState was cs.
\* env.changed: the frame's scores differ from the ones held;
\* env.early: the stage completed less than MIN_STAGE_COMPLETE_MS after its start
handleLivenessResult(u, st, res, cs, env) ==
    LET u1 == IF ~IsNull(res.detection) /\ env.changed
              THEN [u EXCEPT !.scores = "set"]
              ELSE u
    IN  IF res.multiFaceDetected
        THEN [ui |-> u1, state |-> st]
        ELSE IF u1.cooldown /\ ~res.stage.completed
        THEN [ui |-> u1, state |-> st]
        ELSE IF u1.delay
        THEN [ui |-> u1, state |-> st]
        ELSE IF ~IsNull(res.stage.justCompletedIndex)
        THEN IF env.early
             THEN [ ui    |-> [u1 EXCEPT !.delay = TRUE,
                                         !.delayTimer = Some([stage |-> res.stage, cs |-> cs])],
                    state |-> st ]
             ELSE IF ~res.stage.completed
                  THEN [ui |-> startStageCooldown(u1, res.stage.currentStage), state |-> st]
                  ELSE TrackStage(resetStageTimer(u1, res.stage.currentStage), st, res, cs)
        ELSE TrackStage(u1, st, res, cs)

\* the .finally of a processFrame call issued by the loop
CallSettled(u, call) ==
    [u EXCEPT !.busy = FALSE,
              !.loop.raf = IF call.cancelled THEN @ ELSE TRUE]

\* stopCamera
stopCamera(u) ==
    [u EXCEPT !.camera = "off",
              !.loop.raf = FALSE,
              !.tick.raf = FALSE,
              !.cooldownTimer = None, !.delayTimer = None,
              !.busy = FALSE,
              !.isCameraActive = FALSE,
              !.sessionState = "IDLE",
              !.cooldown = FALSE, !.delay = FALSE,
              !.result = None,
              !.isEngineReady = FALSE, !.isLoadingModels = FALSE,
              !.stageStart = FALSE, !.currentStageKey = None]

\* runLivenessSession up to its await of engine.warmup()
runLivenessSessionBegin(u) ==
    [u EXCEPT !.result = None,
              !.cooldown = FALSE, !.delay = FALSE,
              !.isEngineReady = FALSE, !.isLoadingModels = TRUE,
              !.cooldownTimer = None, !.delayTimer = None,
              !.sessionState = "LOADING",
              !.run = "warmup"]

-----------------------------------------------------------------------------
(* Specification Spec: one engine, called by any client *)

\* the engine and the component after construction
InitProgram ==
    /\ state = createLivenessComputationState
    /\ pc = [c \in Calls |-> IdleCall]
    /\ ret = None
    /\ session = 0
    /\ hist = HistInit
    /\ ui = UiInit
    /\ models = ModelsInit
    /\ keyFrame = KeyFrameInit

Init ==
    /\ InitProgram
    /\ probe = None

StartSession ==
    /\ session < MaxSessions
    /\ state' = startSession(state)
    /\ session' = session + 1
    /\ hist' = [hist EXCEPT !.obs = NoObs, !.ownFrames = FALSE]
    /\ UNCHANGED <<pc, ret, ui, models, sideVars>>

StopSession ==
    /\ state' = stopSession(state)
    /\ UNCHANGED <<pc, ret, session, hist, ui, models, sideVars>>

\* processFrame that does not test whether a session is active
ProcessFrameAlways(c) ==
    /\ pc[c].at = "idle"
    /\ pc' = [pc EXCEPT ![c] = [at |-> "warmup", session |-> session]]
    /\ UNCHANGED <<state, ret, hist, session, ui, models, sideVars>>

\* processFrame up to its first await
ProcessFrame(c) ==
    /\ pc[c].at = "idle"
    /\ IF ~state.active
       THEN /\ ret' = Some(EmptyResult(state, FALSE))
            /\ hist' = [hist EXCEPT !.faces = None, !.landmarks = FALSE]
            /\ UNCHANGED pc
       ELSE /\ pc' = [pc EXCEPT ![c] = [at |-> "warmup", session |-> session]]
            /\ UNCHANGED <<ret, hist>>
    /\ UNCHANGED <<state, session, ui, models, sideVars>>

\* await this.warmup() returns
WarmupDone(c) ==
    /\ pc[c].at = "warmup"
    /\ pc' = [pc EXCEPT ![c].at = "detect"]
    /\ UNCHANGED <<state, ret, session, hist, ui, models, sideVars>>

\* await detector.detectFromElement returns n detections
DetectDone(c, n) ==
    /\ pc[c].at = "detect"
    /\ IF n = 1
       THEN /\ pc' = [pc EXCEPT ![c].at = "estimate"]
            /\ UNCHANGED <<state, ret, hist>>
       ELSE /\ state' = NoPrimaryFace(state, n).state
            /\ ret' = Some(NoPrimaryFace(state, n).result)
            /\ hist' = HistNoFace(hist, session, pc[c].session, Some(n))
            /\ pc' = [pc EXCEPT ![c] = IdleCall]
    /\ UNCHANGED <<session, ui, models, sideVars>>

\* await landmarkEstimator.estimate returns e, and processFrame runs to its end
EstimateDone(c, e) ==
    /\ pc[c].at = "estimate"
    /\ IF IsNull(e)
       THEN /\ state' = NoLandmarks(state).state
            /\ ret' = Some(NoLandmarks(state).result)
            /\ hist' = HistNoFace(hist, session, pc[c].session, Some(1))
       ELSE /\ MovesAverage(Val(e)) => state.blink.eyeAvg.exp < MaxEmaSteps
            /\ state' = AcceptedFrame(state, Val(e)).state
            /\ ret' = Some(AcceptedFrame(state, Val(e)).result)
            /\ hist' = HistAccepted(hist, state, session, pc[c].session, Val(e))
    /\ pc' = [pc EXCEPT ![c] = IdleCall]
    /\ UNCHANGED <<session, ui, models, sideVars>>

Next ==
    \/ StartSession
    \/ StopSession
    \/ \E c \in Calls : ProcessFrame(c)
    \/ \E c \in Calls : WarmupDone(c)
    \/ \E c \in Calls, n \in FaceCounts : DetectDone(c, n)
    \/ \E c \in Calls, e \in Estimates : EstimateDone(c, e)

Spec == Init /\ [][Next]_vars

-----------------------------------------------------------------------------
(* Specification SpecLoad: warmup called by any client, directly or through *)
(* processFrame, detectImage and estimateLandmarks.                         *)

\* a client calls warmup
WarmupCall(w) ==
    /\ models.calls[w] = "idle"
    /\ models' = warmupBegin(models, w)
    /\ UNCHANGED <<state, pc, ret, session, hist, ui, sideVars>>

\* detector.loadModel resolves for the warmup call w
DetectorLoaded(w) ==
    /\ models.calls[w] = "detector"
    /\ models' = detectorLoaded(models, w)
    /\ UNCHANGED <<state, pc, ret, session, hist, ui, sideVars>>

\* landmarkEstimator.loadModel resolves for the warmup call w
LandmarkLoaded(w) ==
    /\ models.calls[w] = "landmark"
    /\ models' = landmarkLoaded(models, w)
    /\ UNCHANGED <<state, pc, ret, session, hist, ui, sideVars>>

\* the loadModel that the warmup call w awaits throws
LoadFailed(w) ==
    /\ models.calls[w] \in {"detector", "landmark"}
    /\ models' = loadFailed(models, w)
    /\ UNCHANGED <<state, pc, ret, session, hist, ui, sideVars>>

\* the client resumes after its await of warmup
WarmupReturns(w) ==
    /\ models.calls[w] \in {"skipped", "resolved", "rejected"}
    /\ models' = warmupReturned(models, w)
    /\ UNCHANGED <<state, pc, ret, session, hist, ui, sideVars>>

NextLoad ==
    \/ \E w \in Warmups : WarmupCall(w)
    \/ \E w \in Warmups : DetectorLoaded(w)
    \/ \E w \in Warmups : LandmarkLoaded(w)
    \/ \E w \in Warmups : LoadFailed(w)
    \/ \E w \in Warmups : WarmupReturns(w)

SpecLoad == Init /\ [][NextLoad]_vars

-----------------------------------------------------------------------------
(* The key frame over the sessions of the component. *)

frameOther == <<state, pc, ret, session, hist, ui, models, probe>>

\* startCamera: at mount and from the retry button
FrameStartCamera ==
    /\ keyFrame.sessionState \in {"IDLE", "COMPLETED", "FAILED"}
    /\ keyFrame' = [keyFrameCleared(keyFrame) EXCEPT !.sessionState = "READY"]
    /\ UNCHANGED frameOther

\* the auto-start effect calls runLivenessSession
FrameRunSession ==
    /\ keyFrame.sessionState = "READY"
    /\ keyFrame' = [keyFrameRestarted(keyFrame) EXCEPT !.sessionState = "LOADING"]
    /\ UNCHANGED frameOther

\* runLivenessSession after warmup: resolved, or rejected and caught
FrameSessionStarted(loaded) ==
    /\ keyFrame.sessionState = "LOADING"
    /\ keyFrame' = [keyFrame EXCEPT
                       !.sessionState = IF loaded THEN "IN_PROGRESS" ELSE "READY"]
    /\ UNCHANGED frameOther

\* the inference loop calls processFrame
FrameLoop ==
    /\ keyFrame.sessionState = "IN_PROGRESS"
    /\ ~keyFrame.inFlight
    /\ keyFrame.frames < MaxFrames
    /\ keyFrame' = [keyFrame EXCEPT !.inFlight = TRUE]
    /\ UNCHANGED frameOther

\* handleLivenessResult; on stage.completed it ends in finishSession, which
\* leaves the key frame and the scores as they are
FrameResult(pose, outcome, completed) ==
    /\ keyFrame.inFlight
    /\ LET k == [keyFrameResult(keyFrame, pose, outcome) EXCEPT !.inFlight = FALSE]
       IN  keyFrame' =
               IF completed /\ k.sessionState = "IN_PROGRESS"
               THEN [k EXCEPT !.sessionState = "COMPLETED"]
               ELSE k
    /\ UNCHANGED frameOther

\* the stage timer runs out: failSession
FrameFail ==
    /\ keyFrame.sessionState = "IN_PROGRESS"
    /\ keyFrame' = [keyFrameCleared(keyFrame) EXCEPT !.sessionState = "FAILED"]
    /\ UNCHANGED frameOther

\* stopCamera
FrameStopCamera ==
    /\ keyFrame.sessionState # "IDLE"
    /\ keyFrame' = [keyFrameCleared(keyFrame) EXCEPT !.sessionState = "IDLE"]
    /\ UNCHANGED frameOther

NextFrame ==
    \/ FrameStartCamera
    \/ FrameRunSession
    \/ \E loaded \in BOOLEAN : FrameSessionStarted(loaded)
    \/ FrameLoop
    \/ \E pose \in Poses, outcome \in FrameOutcomes, completed \in BOOLEAN :
           FrameResult(pose, outcome, completed)
    \/ FrameFail
    \/ FrameStopCamera

SpecFrame == Init /\ [][NextFrame]_vars

-----------------------------------------------------------------------------
(* The effect that computes qualityScore, applied to the scores of a render *)

program == <<state, pc, ret, session, hist, ui, models, keyFrame>>

\* values of a score in a render: null, or hundredths
ScoreInputs == {None, Some(0), Some(6667), Some(10000)}

InitQuality ==
    /\ InitProgram
    /\ \E scores \in [SeqRange(QualityValues) -> ScoreInputs] :
           probe = [scores |-> scores, qualityScore |-> None, ran |-> FALSE]

\* the effect runs after the render
QualityEffect ==
    /\ ~probe.ran
    /\ probe' = [probe EXCEPT
                    !.qualityScore = qualityScoreEffect(probe.scores, @),
                    !.ran = TRUE]
    /\ UNCHANGED program

NextQuality == QualityEffect

SpecQuality == InitQuality /\ [][NextQuality]_vars

-----------------------------------------------------------------------------
(* The scoring functions applied to a frame, then the effect *)

GrayLevels == {0, 128, 255}

\* pixels of the padded face box in the frame: none, one corner, all
FaceMasks == {{}, {1}, Pixels}

\* squared distance of the first two key points; None: fewer than two
IodSquares == {None, Some(0), Some(2500), Some(6400), Some(40000), Some(90000)}

\* metrics.frontalScore, which computePoseScore clamps to [0, 100]
FrontalInputs == {None, Some(0), Some(10000)}

InitScores ==
    /\ InitProgram
    /\ \E gray \in [Pixels -> GrayLevels], face \in FaceMasks,
          iod2 \in IodSquares, frontal \in FrontalInputs :
           probe = [ gray |-> gray, face |-> face, iod2 |-> iod2,
                     scores |-> [n \in SeqRange(QualityValues) |->
                                    IF n = "frontalFace" THEN frontal ELSE None],
                     qualityScore |-> None,
                     step |-> "frame" ]

\* handleLivenessResult computes the five scores of the frame and sets them
ScoreFrame ==
    /\ probe.step = "frame"
    /\ probe' = [probe EXCEPT
           !.scores = [@ EXCEPT
               !["brightness"] = Some(computeBrightnessScore(probe.gray)),
               !["clarity"] = Some(estimateBlurScore(probe.gray)),
               !["uniformLighting"] = Some(detectUniformLighting(probe.gray)),
               !["backgroundUniformity"] =
                   Some(analyzeBackgroundUniformity(probe.gray, probe.face)),
               !["pixelResolution"] = evaluatePixelResolution(probe.iod2)],
           !.step = "scored"]
    /\ UNCHANGED program

\* the qualityScore effect runs after the render that shows the scores
AggregateScores ==
    /\ probe.step = "scored"
    /\ probe' = [probe EXCEPT
                    !.qualityScore = qualityScoreEffect(probe.scores, @),
                    !.step = "aggregated"]
    /\ UNCHANGED program

NextScores ==
    \/ ScoreFrame
    \/ AggregateScores

SpecScores == InitScores /\ [][NextScores]_vars

-----------------------------------------------------------------------------
(* The detector applied to the outputs of the network for a frame *)

\* per anchor: a score and the distances left, top, right, bottom
AnchorScores == {40, 60, 80}

BboxPreds == {<<1, 1, 1, 1>>, <<2, 2, 2, 2>>, <<0, 0, 0, 0>>, <<-1, 1, 0, 1>>}

AnchorOutputs == [score : AnchorScores, bboxPreds : BboxPreds]

\* newHeight / height of prepareInput
DetScales == {1, 2}

InitDetect ==
    /\ InitProgram
    /\ \E outs \in [Anchors -> AnchorOutputs], detScale \in DetScales :
           probe = [ session |-> FALSE, outs |-> outs, detScale |-> detScale,
                     results |-> <<>>, again |-> None ]

\* loadModel sets session and inputName
DetectorLoadModel ==
    /\ ~probe.session
    /\ probe' = [probe EXCEPT !.session = TRUE]
    /\ UNCHANGED program

\* a call of detectFromElement on the frame
DetectFromElement ==
    /\ Len(probe.results) < MaxDetects
    /\ probe' = [probe EXCEPT !.results =
                    Append(@, detectFromElement(probe.session, probe.outs,
                                                detectionThreshold, probe.detScale))]
    /\ UNCHANGED program

\* nms applied to the detections the last call returned
NmsAgain ==
    /\ probe.results # <<>>
    /\ probe.results[Len(probe.results)].error = "none"
    /\ IsNull(probe.again)
    /\ probe' = [probe EXCEPT
                    !.again = Some(nms(probe.results[Len(probe.results)].detections))]
    /\ UNCHANGED program

NextDetect ==
    \/ DetectorLoadModel
    \/ DetectFromElement
    \/ NmsAgain

SpecDetect == InitDetect /\ [][NextDetect]_vars

-----------------------------------------------------------------------------
(* Specification SpecUI: the engine driven by the FaceLiveness component.  *)
(* The camera is granted (the mobile handoff simulation is left out).      *)

UiDetections ==
    { Frame(0, 0, RestingEyes, RestingMouth), Frame(0, 5, RestingEyes, RestingMouth),
      Frame(6, 0, RestingEyes, RestingMouth), Frame(0, 0, ShutEyes, RestingMouth),
      Frame(0, 0, RestingEyes, OpenMouth) }

UiEstimates == {None} \cup {Some(d) : d \in UiDetections}

\* what a result handler meets: env.changed, the frame's scores differ from
\* the ones held; env.early, a stage completed within MIN_STAGE_COMPLETE_MS
Envs == [changed : BOOLEAN, early : BOOLEAN]

\* cleanup of the inference loop effect: cancelled = true in its closure
CancelCalls(u) ==
    [u EXCEPT !.calls = [c \in DOMAIN @ |-> [@[c] EXCEPT !.cancelled = TRUE]]]

\* a processFrame call issued by the loop settles with res: .then, .finally
Settle(u, st, call, res, env) ==
    LET h == handleLivenessResult(u, st, res, call.cs, env)
    IN  [ui |-> CallSettled(h.ui, call), state |-> h.state]

InitUI == Init

\* the warmup call that runLivenessSession awaits
RunWarmup == 1

\* startCamera: getUserMedia resolves
CameraStarted ==
    /\ ui.mounted /\ ui.camera = "starting"
    /\ state' = stopSession(state)
    /\ ui' = [ui EXCEPT !.camera = "on",
                        !.isCameraActive = TRUE,
                        !.sessionState = "READY",
                        !.result = None,
                        !.cooldown = FALSE, !.delay = FALSE,
                        !.isEngineReady = FALSE, !.isLoadingModels = FALSE,
                        !.stageStart = FALSE, !.currentStageKey = None,
                        !.tick.raf = FALSE]
    /\ UNCHANGED <<pc, ret, session, hist, models, sideVars>>

\* React commits the pending state: the effects whose dependencies changed
\* are cleaned up and run again with the new values; quality, the
\* qualityScore effect then sets a new value
Commit(quality) ==
    /\ ui.mounted
    /\ ReactState(ui) # ui.closure \/ ui.scores # "clean"
    /\ LET old == ui.closure
           new == ReactState(ui)
           callbacksChanged == old.sessionState # new.sessionState \/ ui.scores # "clean"
           loopChanged == \/ callbacksChanged
                          \/ old.isCameraActive # new.isCameraActive
                          \/ old.isEngineReady # new.isEngineReady
           autoStart   == /\ \/ old.isCameraActive # new.isCameraActive
                             \/ old.isLoadingModels # new.isLoadingModels
                             \/ old.sessionState # new.sessionState
                          /\ new.isCameraActive /\ new.sessionState = "READY"
                          /\ ~new.isLoadingModels
           u1 == [ui EXCEPT !.closure = new,
                            !.scores  = IF @ = "set" /\ quality THEN "quality" ELSE "clean"]
           u2 == IF loopChanged
                 THEN [CancelCalls(u1) EXCEPT
                          !.loop = IF new.isCameraActive THEN NewInstance ELSE NoInstance]
                 ELSE u1
           u3 == IF callbacksChanged
                 THEN [u2 EXCEPT !.tick = IF new.sessionState = "IN_PROGRESS"
                                          THEN NewInstance ELSE NoInstance]
                 ELSE u2
       IN  IF autoStart
           THEN /\ ui' = runLivenessSessionBegin(u3)
                /\ state' = stopSession(state)
                /\ models' = warmupBegin(models, RunWarmup)
           ELSE /\ ui' = u3
                /\ UNCHANGED <<state, models>>
    /\ UNCHANGED <<pc, ret, session, hist, sideVars>>

\* runLivenessSession: engine.warmup() resolves
WarmupResolved ==
    /\ ui.run = "warmup"
    /\ models.calls[RunWarmup] \in {"skipped", "resolved"}
    /\ models' = warmupReturned(models, RunWarmup)
    /\ session < MaxSessions
    /\ state' = startSession(state)
    /\ session' = session + 1
    /\ hist' = [hist EXCEPT !.obs = NoObs, !.ownFrames = FALSE]
    /\ ui' = [resetStageTimer(ui, Some(LIVENESS_STAGES[1])) EXCEPT
                  !.run = "none",
                  !.sessionState = "IN_PROGRESS",
                  !.isEngineReady = TRUE,
                  !.isLoadingModels = FALSE]
    /\ UNCHANGED <<pc, ret, sideVars>>

\* runLivenessSession: engine.warmup() rejects
WarmupRejected ==
    /\ ui.run = "warmup"
    /\ models.calls[RunWarmup] = "rejected"
    /\ models' = warmupReturned(models, RunWarmup)
    /\ state' = stopSession(state)
    /\ ui' = [ui EXCEPT !.run = "none",
                        !.sessionState = "READY",
                        !.isEngineReady = FALSE,
                        !.isLoadingModels = FALSE]
    /\ UNCHANGED <<pc, ret, session, hist, sideVars>>

\* the loop without its test of the cooldown and the completion delay
LoopTickAnyTime(c, env) ==
    /\ ui.loop.live /\ ui.loop.raf
    /\ ui.closure.sessionState = "IN_PROGRESS" /\ ui.closure.isEngineReady
    /\ ~ui.busy
    /\ IF state.active
       THEN pc[c].at = "idle" /\ \A d \in Calls : d < c => pc[d].at # "idle"
       ELSE c = 1
    /\ LET call == [cancelled |-> FALSE, cs |-> ui.closure.sessionState]
           u1   == [ui EXCEPT !.busy = TRUE, !.loop.raf = FALSE,
                              !.overlap = @ \/ InFlight(pc) # {}]
       IN  IF ~state.active
           THEN /\ ret' = Some(EmptyResult(state, FALSE))
                /\ ui' = Settle(u1, state, call, EmptyResult(state, FALSE), env).ui
                /\ state' = Settle(u1, state, call, EmptyResult(state, FALSE), env).state
                /\ UNCHANGED pc
           ELSE /\ pc' = [pc EXCEPT ![c] = [at |-> "warmup", session |-> session]]
                /\ ui' = [u1 EXCEPT !.calls[c] = call]
                /\ UNCHANGED <<state, ret>>
    /\ UNCHANGED <<session, hist, models, sideVars>>

\* an animation frame runs the inference loop past its guards: it issues
\* processFrame, which returns at once when no session is active
LoopTick(c, env) ==
    /\ ui.loop.live /\ ui.loop.raf
    /\ ui.closure.sessionState = "IN_PROGRESS" /\ ui.closure.isEngineReady
    /\ ~ui.delay /\ ~ui.cooldown
    /\ ~ui.busy
    /\ IF state.active
       THEN pc[c].at = "idle" /\ \A d \in Calls : d < c => pc[d].at # "idle"
       ELSE c = 1
    /\ LET call == [cancelled |-> FALSE, cs |-> ui.closure.sessionState]
           u1   == [ui EXCEPT !.busy = TRUE, !.loop.raf = FALSE,
                              !.overlap = @ \/ InFlight(pc) # {}]
       IN  IF ~state.active
           THEN /\ ret' = Some(EmptyResult(state, FALSE))
                /\ ui' = Settle(u1, state, call, EmptyResult(state, FALSE), env).ui
                /\ state' = Settle(u1, state, call, EmptyResult(state, FALSE), env).state
                /\ UNCHANGED pc
           ELSE /\ pc' = [pc EXCEPT ![c] = [at |-> "warmup", session |-> session]]
                /\ ui' = [u1 EXCEPT !.calls[c] = call]
                /\ UNCHANGED <<state, ret>>
    /\ UNCHANGED <<session, hist, models, sideVars>>

\* the detector returns n faces to a call of the loop
UiDetectDone(c, n, env) ==
    /\ pc[c].at = "detect"
    /\ IF n = 1
       THEN /\ pc' = [pc EXCEPT ![c].at = "estimate"]
            /\ UNCHANGED <<state, ret, hist, ui>>
       ELSE LET r == NoPrimaryFace(state, n)
                h == Settle(ui, r.state, ui.calls[c], r.result, env)
            IN  /\ state' = h.state
                /\ ret' = Some(r.result)
                /\ hist' = HistNoFace(hist, session, pc[c].session, Some(n))
                /\ pc' = [pc EXCEPT ![c] = IdleCall]
                /\ ui' = [h.ui EXCEPT !.calls[c] = NoCall]
    /\ UNCHANGED <<session, models, sideVars>>

\* the landmark estimator returns e to a call of the loop
UiEstimateDone(c, e, env) ==
    /\ pc[c].at = "estimate"
    /\ ~IsNull(e) /\ MovesAverage(Val(e)) => state.blink.eyeAvg.exp < MaxEmaSteps
    /\ LET r == IF IsNull(e) THEN NoLandmarks(state) ELSE AcceptedFrame(state, Val(e))
           h == Settle(ui, r.state, ui.calls[c], r.result, env)
       IN  /\ state' = h.state
           /\ ret' = Some(r.result)
           /\ hist' = IF IsNull(e)
                      THEN HistNoFace(hist, session, pc[c].session, Some(1))
                      ELSE HistAccepted(hist, state, session, pc[c].session, Val(e))
           /\ ui' = [h.ui EXCEPT !.calls[c] = NoCall]
    /\ pc' = [pc EXCEPT ![c] = IdleCall]
    /\ UNCHANGED <<session, models, sideVars>>

\* a call of the loop rejects: .catch, .finally
CallRejected(c) ==
    /\ pc[c].at # "idle"
    /\ pc' = [pc EXCEPT ![c] = IdleCall]
    /\ ui' = [CallSettled(ui, ui.calls[c]) EXCEPT !.calls[c] = NoCall]
    /\ UNCHANGED <<state, ret, session, hist, models, sideVars>>

\* an animation frame runs the stage progress tick: it starts the stage
\* clock when there is none, and fails the session when the stage has timed
\* out (a tick before the timeout changes only the progress bar)
StageTick ==
    /\ ui.tick.live /\ ui.tick.raf
    /\ ~ui.cooldown /\ ~ui.delay
    /\ IF ~ui.stageStart
       THEN /\ ui' = [ui EXCEPT !.stageStart = TRUE]
            /\ UNCHANGED state
       ELSE /\ ui' = failSession(ui, state, "IN_PROGRESS").ui
            /\ state' = failSession(ui, state, "IN_PROGRESS").state
    /\ UNCHANGED <<pc, ret, session, hist, models, sideVars>>

\* the timer of startStageCooldown fires
CooldownTimerFires ==
    /\ ~IsNull(ui.cooldownTimer)
    /\ ui' = resetStageTimer([ui EXCEPT !.cooldown = FALSE, !.cooldownTimer = None],
                             Val(ui.cooldownTimer))
    /\ UNCHANGED <<state, pc, ret, session, hist, models, sideVars>>

\* the timer of the completion delay fires
DelayTimerFires ==
    /\ ~IsNull(ui.delayTimer)
    /\ LET d  == Val(ui.delayTimer)
           u1 == [ui EXCEPT !.delay = FALSE, !.delayTimer = None]
           h  == IF d.stage.completed
                 THEN finishSession(u1, state, d.cs)
                 ELSE [ui |-> startStageCooldown(u1, d.stage.currentStage), state |-> state]
       IN  /\ ui' = h.ui
           /\ state' = h.state
    /\ UNCHANGED <<pc, ret, session, hist, models, sideVars>>

\* the component unmounts: the effect cleanups, stopCamera among them
Unmount ==
    /\ ui.mounted
    /\ ui' = [CancelCalls(stopCamera(ui)) EXCEPT !.mounted = FALSE,
                                                 !.loop = NoInstance,
                                                 !.tick = NoInstance]
    /\ state' = stopSession(state)
    /\ UNCHANGED <<pc, ret, session, hist, models, sideVars>>

NextUI ==
    \/ CameraStarted
    \/ \E quality \in BOOLEAN : Commit(quality)
    \/ \E w \in Warmups : DetectorLoaded(w)
    \/ \E w \in Warmups : LandmarkLoaded(w)
    \/ \E w \in Warmups : LoadFailed(w)
    \/ WarmupResolved
    \/ WarmupRejected
    \/ \E c \in Calls, env \in Envs : LoopTick(c, env)
    \/ \E c \in Calls : WarmupDone(c)
    \/ \E c \in Calls, n \in FaceCounts, env \in Envs : UiDetectDone(c, n, env)
    \/ \E c \in Calls, e \in UiEstimates, env \in Envs : UiEstimateDone(c, e, env)
    \/ \E c \in Calls : CallRejected(c)
    \/ StageTick
    \/ CooldownTimerFires
    \/ DelayTimerFires
    \/ Unmount

SpecUI == InitUI /\ [][NextUI]_vars

\* C9: the loop never issues a processFrame call while an earlier one has
\* not settled: at most one call is in flight at any time, in every
\* interleaving with the stage timeout (failSession), stopCamera and the
\* re-creation of the loop effect.
C9_SingleFlight == ~ui.overlap

-----------------------------------------------------------------------------
(* Properties of the engine, checked under Spec *)

\* the step in which a call returns after its estimate, with a detection
AcceptedStep ==
    /\ \E c \in DOMAIN pc : pc[c].at = "estimate" /\ pc'[c].at = "idle"
    /\ ret' # None
    /\ ~IsNull(Val(ret').detection)

\* the step in which a call returns from the detector without a primary face
NoFaceStep == \E c \in DOMAIN pc : pc[c].at = "detect" /\ pc'[c].at = "idle"

\* the stage predicate of the stage current in pre, on the frame returned as res
StagePredicate(pre, res) ==
    LET m == Val(res.metrics)
        o == FrameObs(pre, Val(res.detection))
    IN  CASE pre.stageIndex = 0 -> ~IsNull(m.nodSpread) /\ Val(m.nodSpread) >= nodPitch
          [] pre.stageIndex = 1 -> ~IsNull(m.shakeSpread) /\ Val(m.shakeSpread) >= shakeYaw
          [] pre.stageIndex = 2 -> /\ pre.blink.closedDetected \/ o.closed
                                   /\ pre.blink.openDetected \/ o.open
          [] pre.stageIndex = 3 -> /\ pre.mouth.openDetected \/ o.mouthOpen
                                   /\ pre.mouth.closedDetected \/ o.mouthClosed
          [] OTHER -> FALSE

StageMachine(st) ==
    <<st.stageIndex, st.completed, st.active, st.nodRange, st.shakeRange, st.blink, st.mouth>>

SpreadOrd(range) == IF IsNull(getSpread(range)) THEN -1 ELSE Val(getSpread(range))

ReportedOrd(o) == IF IsNull(o) THEN -1 ELSE Val(o)

\* C1: between two startSession calls stageIndex never decreases; only an
\* accepted frame changes it, by exactly 1 when the predicate of the current
\* stage is satisfied and not at all otherwise; the stage reported completed
\* is the one that was current, so the order is nod, shake, blink, mouth.
C1_StageOrder ==
    [][ session' = session =>
          /\ state'.stageIndex \in {state.stageIndex, state.stageIndex + 1}
          /\ state'.stageIndex # state.stageIndex => AcceptedStep
          /\ AcceptedStep =>
                /\ StagePredicate(state, Val(ret')) <=>
                      state'.stageIndex = state.stageIndex + 1
                /\ state'.stageIndex = state.stageIndex + 1 =>
                      /\ Val(ret').stage.justCompletedStage
                            = Some(LIVENESS_STAGES[state.stageIndex + 1])
                      /\ Val(ret').stage.justCompletedIndex = Some(state.stageIndex)
      ]_vars

C1_Witness ==
    /\ state.stageIndex = 4
    /\ ret # None
    /\ Val(ret).stage.justCompletedStage = Some("mouth")

\* C2: a call whose detector result has zero or several faces leaves
\* stageIndex, completed, active, both ranges, the blink state and the mouth
\* state as they were, returns detection null and metrics null and reports no
\* completed stage; multiFaceDetected is set exactly for several faces.
C2_NoFaceUntouched ==
    [][ NoFaceStep =>
          /\ StageMachine(state') = StageMachine(state)
          /\ ret' # None
          /\ IsNull(Val(ret').detection)
          /\ IsNull(Val(ret').metrics)
          /\ IsNull(Val(ret').stage.justCompletedIndex)
          /\ hist'.faces # Some(1)
          /\ Val(ret').multiFaceDetected <=> Val(hist'.faces) > 1
      ]_vars

C2_Witness ==
    /\ ret # None
    /\ Val(ret).multiFaceDetected
    /\ hist.faces = Some(2)
    /\ state.stageIndex = 2
    /\ state.blink.openDetected
    /\ ~IsNull(state.nodRange.min)

\* C3 (as claimed): the spread that completes the nod or the shake stage is
\* the spread of the ratio over the accepted frames processed since that
\* stage became current.
C3_SpreadOverOwnStage ==
    ret # None =>
      /\ Val(ret).stage.justCompletedIndex = Some(0) =>
            SpreadOrd(hist.window.nodRange) >= nodPitch
      /\ Val(ret).stage.justCompletedIndex = Some(1) =>
            SpreadOrd(hist.window.shakeRange) >= shakeYaw

\* C4 (as claimed): the blink stage completes only after a closed and an open
\* eye were seen on frames processed while blink was current, the mouth stage
\* only after an open and a closed mouth were seen while mouth was current.
C4_ObservedWithinStage ==
    ret # None =>
      /\ Val(ret).stage.justCompletedIndex = Some(2) =>
            hist.window.obs.closed /\ hist.window.obs.open
      /\ Val(ret).stage.justCompletedIndex = Some(3) =>
            hist.window.obs.mouthOpen /\ hist.window.obs.mouthClosed

\* C5: while no accepted frame of the session was classified closed, the
\* blink predicate is false and stageIndex does not pass the blink stage;
\* while the mouth observations of the session are all of one kind, the
\* mouth predicate is false and the session is not completed.
C5_BothExtremes ==
    /\ ~hist.obs.closed =>
          /\ ~(state.blink.closedDetected /\ state.blink.openDetected)
          /\ state.stageIndex <= 2
    /\ ~(hist.obs.mouthOpen /\ hist.obs.mouthClosed) =>
          /\ ~(state.mouth.openDetected /\ state.mouth.closedDetected)
          /\ state.stageIndex <= 3
          /\ ~state.completed

C5_Witness ==
    /\ state.stageIndex = 2
    /\ state.blink.openDetected
    /\ hist.window.stage = 2
    /\ hist.window.obs.open
    /\ ~hist.obs.closed

\* C6: at the nod stage an accepted frame whose nod spread is at least
\* nodPitch (0.05) completes stage 0: stageIndex becomes 1, the frame reports
\* justCompletedIndex 0 and the nod range is empty; an accepted frame that
\* meets an empty nod range reports a nod spread of 0.
C6_NodThreshold ==
    [][ AcceptedStep =>
          /\ ( /\ state.stageIndex = 0
               /\ ReportedOrd(Val(Val(ret').metrics).nodSpread) >= nodPitch )
             => /\ state'.stageIndex = 1
                /\ Val(ret').stage.justCompletedIndex = Some(0)
                /\ state'.nodRange = EmptyRange
          /\ ( /\ state.nodRange = EmptyRange
               /\ ~IsNull(Val(Val(ret').metrics).nodRatio) )
             => Val(Val(ret').metrics).nodSpread = Some(0)
      ]_vars

C6_Witness ==
    /\ ret # None
    /\ Val(ret).stage.justCompletedIndex = Some(0)
    /\ Val(Val(ret).metrics).nodSpread = Some(nodPitch)
    /\ state.stageIndex = 1
    /\ state.nodRange = EmptyRange

\* C7: the nod spread and the shake spread reported by an accepted frame are
\* not below the spread held before it, and a spread held by the engine
\* drops only at a startSession or when its own stage completes.
C7_SpreadMonotonic ==
    [][ /\ AcceptedStep =>
              /\ ReportedOrd(Val(Val(ret').metrics).nodSpread) >= SpreadOrd(state.nodRange)
              /\ ReportedOrd(Val(Val(ret').metrics).shakeSpread) >= SpreadOrd(state.shakeRange)
        /\ SpreadOrd(state'.nodRange) < SpreadOrd(state.nodRange) =>
              \/ session' # session
              \/ AcceptedStep /\ state.stageIndex = 0 /\ state'.stageIndex = 1
        /\ SpreadOrd(state'.shakeRange) < SpreadOrd(state.shakeRange) =>
              \/ session' # session
              \/ AcceptedStep /\ state.stageIndex = 1 /\ state'.stageIndex = 2
      ]_vars

C7_Witness ==
    /\ ret # None
    /\ ~IsNull(Val(ret).metrics)
    /\ Val(Val(ret).metrics).nodSpread = Some(3)
    /\ Val(Val(ret).metrics).nodRatio = Some(0)
    /\ state.stageIndex = 0
    /\ SpreadOrd(state.nodRange) = 3

\* C8: completed holds exactly when stageIndex is 4, completed implies not
\* active, and stageIndex stays within 0..4.
C8_CompletedIffAllStages ==
    /\ state.stageIndex \in 0 .. Len(LIVENESS_STAGES)
    /\ state.completed <=> state.stageIndex = Len(LIVENESS_STAGES)
    /\ state.completed => ~state.active

C8_Witness == state.completed /\ state.stageIndex = 4 /\ ~state.active

CleanSession(st) ==
    /\ st.stageIndex = 0
    /\ ~st.completed
    /\ st.nodRange = EmptyRange
    /\ st.shakeRange = EmptyRange
    /\ st.blink = [ closedDetected |-> FALSE, openDetected |-> FALSE,
                    eyeAvg |-> [num |-> INITIAL_BLINK_AVG, exp |-> 0] ]
    /\ st.mouth = [openDetected |-> FALSE, closedDetected |-> FALSE]

\* C10 (as claimed): the state that startSession leaves is altered by no
\* frame that was in flight when the session before it was stopped: until a
\* call issued in the new session gets past the detector, the state is clean.
C10_CleanAfterRestart ==
    (session >= 1 /\ ~hist.ownFrames) => CleanSession(state)

-----------------------------------------------------------------------------
(* Properties of model loading, checked under SpecLoad and SpecUI *)

\* the step in which a detector model is loaded
DetectorLoadStep ==
    \E w \in Warmups : models.calls[w] = "detector" /\ models'.calls[w] = "landmark"

\* the step in which a landmark model is loaded
LandmarkLoadStep ==
    \E w \in Warmups : models.calls[w] = "landmark" /\ models'.calls[w] = "resolved"

\* C11 (as claimed): each of the two models is loaded at most once per
\* engine: no model is loaded while the engine already holds a session of it.
C11_LoadedOnce ==
    [][ /\ DetectorLoadStep => ~models.detector
        /\ LandmarkLoadStep => ~models.landmark
      ]_vars

\* C11 (amended): once modelsLoaded is true it stays true, both sessions
\* exist, and a warmup call that begins then returns at once and starts no
\* load.
C11_NoOpOnceLoaded ==
    [][ models.loaded =>
          /\ models.detector /\ models.landmark
          /\ models'.loaded
          /\ \A w \in Warmups :
                (models.calls[w] = "idle" /\ models'.calls[w] # "idle") =>
                   models'.calls[w] = "skipped"
      ]_vars

C11_Witness ==
    /\ models.loaded
    /\ \E w \in Warmups : models.calls[w] = "skipped"

\* the step in which runLivenessSession catches the rejection of warmup
CaughtStep ==
    /\ ui.run = "warmup" /\ ui'.run = "none"
    /\ models.calls[RunWarmup] = "rejected"

\* C12: when warmup rejects, runLivenessSession catches it and leaves the
\* engine without an active session and with modelsLoaded false; no session
\* was started and the component is READY, not IN_PROGRESS.
C12_SafeAfterLoadFailure ==
    [][ /\ models'.calls[RunWarmup] = "rejected" => ~models'.loaded
        /\ CaughtStep =>
              /\ ~state'.active
              /\ ~models'.loaded
              /\ session' = session
              /\ ui'.sessionState = "READY"
              /\ ~ui'.isEngineReady /\ ~ui'.isLoadingModels
      ]_vars

C12_Witness ==
    /\ ui.run = "none" /\ ui.sessionState = "READY"
    /\ ui.closure.sessionState = "LOADING"
    /\ models.detector /\ ~models.landmark /\ ~models.loaded
    /\ ~state.active /\ session = 0

\* runLivenessSession has caught a load failure and React has not committed yet
StartupFailed ==
    /\ ui.run = "none"
    /\ ui.sessionState = "READY"
    /\ ui.closure.sessionState = "LOADING"

\* C13 (as claimed): after a session startup has failed on model load the
\* component starts no other warmup on its own.
C13_NoAutomaticRetry == [][ StartupFailed => ui'.run # "warmup" ]_vars

-----------------------------------------------------------------------------
(* Properties of the key frame, checked under SpecFrame *)

\* a result has been handled in this step
FrameHandled == keyFrame'.frames = keyFrame.frames + 1

\* the stored frame is replaced by a new one in this step
FrameReplaced ==
    /\ keyFrame'.keyFrameOriginal # NoFrame
    /\ \/ keyFrame'.keyFrameOriginal # keyFrame.keyFrameOriginal
       \/ keyFrame'.keyFrameFull # keyFrame.keyFrameFull

\* C14: a candidate frame replaces the stored best frame only if its frontal
\* score is strictly greater than the stored best score, which becomes its
\* score; a candidate whose score is equal or lower leaves the stored frame
\* and score as they are; and the stored best score never decreases from one
\* step of a session to the next.
C14_StrictlyBetterReplaces ==
    [][ /\ FrameReplaced =>
            /\ FrameHandled
            /\ ~IsNull(keyFrame'.poses[keyFrame'.frames])
            /\ Val(keyFrame'.poses[keyFrame'.frames]) > keyFrame.keyFrameScore
            /\ keyFrame'.keyFrameScore = Val(keyFrame'.poses[keyFrame'.frames])
            /\ keyFrame'.keyFrameOriginal = keyFrame'.frames
        /\ ( /\ FrameHandled
             /\ ~IsNull(keyFrame'.poses[keyFrame'.frames])
             /\ Val(keyFrame'.poses[keyFrame'.frames]) <= keyFrame.keyFrameScore )
           => /\ keyFrame'.keyFrameScore = keyFrame.keyFrameScore
              /\ keyFrame'.keyFrameOriginal = keyFrame.keyFrameOriginal
              /\ keyFrame'.keyFrameFull = keyFrame.keyFrameFull
              /\ keyFrame'.keyFrameImage = keyFrame.keyFrameImage
        /\ ( /\ keyFrame.sessionState = "IN_PROGRESS"
             /\ keyFrame'.sessionState \in {"IN_PROGRESS", "COMPLETED"} )
           => keyFrame'.keyFrameScore >= keyFrame.keyFrameScore
      ]_vars

\* two frames of equal frontal score were handled in a session and the
\* earlier one is stored
C14_Witness ==
    /\ keyFrame.sessionState = "IN_PROGRESS"
    /\ keyFrame.frames = 2
    /\ keyFrame.poses[1] = keyFrame.poses[2]
    /\ ~IsNull(keyFrame.poses[1])
    /\ keyFrame.keyFrameOriginal = 1
    /\ keyFrame.keyFrameScore = Val(keyFrame.poses[1])

\* C15: at every point of a session, each quality score that is reported
\* (brightness, clarity, uniform lighting, background uniformity, pixel
\* resolution, and the frontal score) was computed from the frame that is
\* stored as the best frame.
C15_ScoresFromKeyFrame ==
    keyFrame.sessionState = "IN_PROGRESS" =>
        /\ \A s \in ScoreNames :
               keyFrame.scores[s] \in {NoFrame, keyFrame.keyFrameOriginal}
        /\ keyFrame.frontalFaceScore \in {NoFrame, keyFrame.keyFrameOriginal}

-----------------------------------------------------------------------------
(* Properties of the aggregate quality score, checked under SpecQuality *)

AllPresent(names) == \A n \in names : ~IsNull(probe.scores[n])

-----------------------------------------------------------------------------
(* Properties of the scoring functions, checked under SpecScores *)

\* C17: each of the five quality scores computed for a frame, and the
\* aggregate computed from them, lies in the closed range [0, 100] (0 to
\* 10000 hundredths).
C17_ScoresInRange ==
    /\ probe.step # "frame" =>
           \A n \in ScoreNames :
               ~IsNull(probe.scores[n]) =>
                   Val(probe.scores[n]) >= 0 /\ Val(probe.scores[n]) <= 10000
    /\ ~IsNull(probe.qualityScore) =>
           Val(probe.qualityScore) >= 0 /\ Val(probe.qualityScore) <= 10000

\* the aggregate has been computed for a frame whose clarity reaches the cap
\* and whose face region is at the brightness that scores 0
C17_Witness ==
    /\ probe.step = "aggregated"
    /\ ~IsNull(probe.qualityScore)
    /\ probe.scores["clarity"] = Some(10000)
    /\ probe.scores["pixelResolution"] = Some(10000)
    /\ \E n \in ScoreNames : probe.scores[n] = Some(0)

-----------------------------------------------------------------------------
(* Properties of the detector, checked under SpecDetect *)

Returned == {probe.results[i] : i \in 1 .. Len(probe.results)}

\* C18: every detection the detector returns has x1 < x2 and y1 < y2.
C18_BoxesProper ==
    \A r \in Returned :
        \A i \in 1 .. Len(r.detections) :
            /\ r.detections[i].bbox[1] < r.detections[i].bbox[3]
            /\ r.detections[i].bbox[2] < r.detections[i].bbox[4]

\* C19: no two boxes in the output of NMS have IoU greater than 0.4 (with
\* the +1 width and height), and NMS applied to its own output returns the
\* same detections.
C19_NmsIdempotent ==
    /\ \A r \in Returned :
           \A i, j \in 1 .. Len(r.detections) :
               i # j => ~OverThresh(iou(r.detections[i].bbox, r.detections[j].bbox))
    /\ ~IsNull(probe.again) =>
           Val(probe.again) = probe.results[Len(probe.results)].detections

\* NMS has removed a box, kept two, and has been applied again
C19_Witness ==
    /\ ~IsNull(probe.again)
    /\ Len(Val(probe.again)) = 2
    /\ \A i \in Anchors : probe.outs[i].score >= detectionThreshold
    /\ \A i \in Anchors : probe.outs[i].bboxPreds[1] > 0

\* a call of detectFromElement in this step
DetectStep == Len(probe'.results) = Len(probe.results) + 1

\* C20: a call of the detector before a model is loaded fails with the
\* model-not-loaded error; a call after it, when no anchor score reaches the
\* threshold, returns the empty sequence and no error.
C20_NotLoadedOrEmpty ==
    [][ DetectStep =>
            LET r == probe'.results[Len(probe'.results)]
            IN  /\ ~probe.session =>
                       r.error = "ModelNotLoaded" /\ r.detections = <<>>
                /\ ( /\ probe.session
                     /\ \A i \in Anchors : probe.outs[i].score < detectionThreshold )
                   => r.error = "none" /\ r.detections = <<>>
      ]_vars

\* the detector was called before the model was loaded and again after it,
\* on outputs whose scores are all below the threshold
C20_Witness ==
    /\ Len(probe.results) = 2
    /\ probe.results[1].error = "ModelNotLoaded"
    /\ probe.results[2] = [error |-> "none", detections |-> <<>>]
    /\ \A i \in Anchors : probe.outs[i].score < detectionThreshold

-----------------------------------------------------------------------------
(* Further properties of the engine, checked under Spec *)

\* the step in which a call returns after the estimator returned null
NoLandmarksStep ==
    /\ \E c \in DOMAIN pc : pc[c].at = "estimate" /\ pc'[c].at = "idle"
    /\ ~hist'.landmarks

\* C21: a call whose detector result has exactly one face and whose landmark
\* estimate is null returns (it does not throw) detection null and metrics
\* null, without multiFaceDetected and without a completed stage, and leaves
\* stageIndex, completed, active, both ranges, the blink state and the mouth
\* state as they were.
C21_NoLandmarksAsNoFace ==
    [][ NoLandmarksStep =>
          /\ StageMachine(state') = StageMachine(state)
          /\ ret' # None
          /\ IsNull(Val(ret').detection)
          /\ IsNull(Val(ret').metrics)
          /\ ~Val(ret').multiFaceDetected
          /\ IsNull(Val(ret').stage.justCompletedIndex)
          /\ hist'.faces = Some(1)
      ]_vars

\* a frame without landmarks has been returned in the blink stage, with a
\* closed eye seen and a nod range held
C21_Witness ==
    /\ ret # None
    /\ IsNull(Val(ret).detection)
    /\ hist.faces = Some(1)
    /\ ~hist.landmarks
    /\ state.active
    /\ state.stageIndex = 2
    /\ state.blink.closedDetected
    /\ ~IsNull(state.nodRange.min)

-----------------------------------------------------------------------------
(* Specification SpecTimer: the stage timer of the FaceLiveness component   *)
(* against the clock.  probe holds the timer refs, the session state and    *)
(* the reading of performance.now(); the engine is reduced to its stage     *)
(* index, and a frame either completes the current stage or does not.       *)

DEFAULT_STAGE_TIMEOUT_MS == 3000
MIN_STAGE_COMPLETE_MS == 1000
STAGE_COOLDOWN_MS == 1000

\* the clock advances in steps of half the minimum stage time
TimeStep == MIN_STAGE_COMPLETE_MS \div 2
MaxTicks == 34

\* no session lasts longer: every stage ends within its timeout (a
\* completion delay ends within it too), and a cooldown follows a stage
LongestSession ==
    Len(LIVENESS_STAGES) * (DEFAULT_STAGE_TIMEOUT_MS + STAGE_COOLDOWN_MS)

NoStartTimes == [k \in SeqRange(LIVENESS_STAGES) |-> None]

TimerInit ==
    [ now             |-> 0,
      ticked          |-> FALSE,
      sessionState    |-> "READY",
      result          |-> None,
      active          |-> FALSE,
      stageIndex      |-> 0,
      currentStageKey |-> None,
      stageStartTime  |-> None,
      stageTimeout    |-> DEFAULT_STAGE_TIMEOUT_MS,
      stageStartTimes |-> NoStartTimes,
      cooldown        |-> FALSE,
      delay           |-> FALSE,
      cooldownTimer   |-> None,
      delayTimer      |-> None,
      evidence        |-> [i \in 1..Len(LIVENESS_STAGES) |-> 0] ]

\* handleStageCompleted: one more evidence GIF is requested for the stage at
\* stageIndex (evidence counts the requests per stage, first stage at 1)
handleStageCompletedAt(t, stageIndex) ==
    [t EXCEPT !.evidence[stageIndex + 1] = @ + 1]

\* resetStageTimer at the time t.now (every stage has the default timeout)
resetStageTimerAt(t, stageKey) ==
    [t EXCEPT !.currentStageKey = stageKey,
              !.stageTimeout    = DEFAULT_STAGE_TIMEOUT_MS,
              !.stageStartTime  = Some(t.now),
              !.stageStartTimes = IF IsNull(stageKey) THEN @
                                  ELSE [@ EXCEPT ![Val(stageKey)] = Some(t.now)]]

\* startStageCooldown at the time t.now: the timer is due STAGE_COOLDOWN_MS later
startStageCooldownAt(t, nextStageKey) ==
    [t EXCEPT !.cooldown = TRUE,
              !.stageStartTime = None,
              !.cooldownTimer = Some([due |-> t.now + STAGE_COOLDOWN_MS,
                                      next |-> nextStageKey])]

\* the refs finishSession and failSession both reset, and stopSession
endSessionAt(t, sessionState, result) ==
    [t EXCEPT !.active = FALSE,
              !.cooldown = FALSE, !.delay = FALSE,
              !.stageStartTimes = NoStartTimes,
              !.stageStartTime = None, !.currentStageKey = None,
              !.stageTimeout = DEFAULT_STAGE_TIMEOUT_MS,
              !.cooldownTimer = None, !.delayTimer = None,
              !.sessionState = sessionState,
              !.result = Some(result)]

finishSessionAt(t) ==
    IF t.sessionState \in {"COMPLETED", "FAILED"} THEN t
    ELSE endSessionAt(t, "COMPLETED", "PASS")

failSessionAt(t) ==
    IF t.sessionState \in {"COMPLETED", "FAILED"} THEN t
    ELSE endSessionAt(t, "FAILED", "FAIL")

\* the stage status of a frame: done, the frame completed the stage at index i
timedStageStatus(i, done) ==
    LET next == IF done THEN i + 1 ELSE i
    IN  [ currentStage       |-> IF next < Len(LIVENESS_STAGES)
                                 THEN Some(LIVENESS_STAGES[next + 1]) ELSE None,
          completed          |-> next >= Len(LIVENESS_STAGES),
          justCompletedIndex |-> IF done THEN Some(i) ELSE None ]

\* handleLivenessResult without the minimum time of a stage
handleLivenessResultNoDelay(t, stage) ==
    LET activeStage == stage.currentStage
        track(u) ==
            LET u1 == IF ~IsNull(activeStage) /\ activeStage # u.currentStageKey
                      THEN resetStageTimerAt(u, activeStage)
                      ELSE IF u.sessionState = "IN_PROGRESS" /\ IsNull(u.stageStartTime)
                           THEN resetStageTimerAt(u, activeStage)
                           ELSE u
            IN  IF stage.completed THEN finishSessionAt(u1) ELSE u1
    IN  IF t.cooldown /\ ~stage.completed THEN t
        ELSE IF t.delay THEN t
        ELSE IF ~IsNull(stage.justCompletedIndex)
        THEN LET completedKey == LIVENESS_STAGES[Val(stage.justCompletedIndex) + 1]
                 startedAt    == t.stageStartTimes[completedKey]
                 elapsed      == IF IsNull(startedAt) THEN 0 ELSE t.now - Val(startedAt)
             IN  IF FALSE
                 THEN [t EXCEPT !.delay = TRUE,
                                !.delayTimer =
                                    Some([due   |-> t.now + (MIN_STAGE_COMPLETE_MS - elapsed),
                                          stage |-> stage])]
                 ELSE LET u == handleStageCompletedAt(t, Val(stage.justCompletedIndex))
                      IN  IF ~stage.completed
                          THEN startStageCooldownAt(u, stage.currentStage)
                          ELSE track(resetStageTimerAt(u, stage.currentStage))
        ELSE track(t)

\* handleLivenessResult, from its cooldown check on, at the time t.now
handleLivenessResultAt(t, stage) ==
    LET activeStage == stage.currentStage
        track(u) ==
            LET u1 == IF ~IsNull(activeStage) /\ activeStage # u.currentStageKey
                      THEN resetStageTimerAt(u, activeStage)
                      ELSE IF u.sessionState = "IN_PROGRESS" /\ IsNull(u.stageStartTime)
                           THEN resetStageTimerAt(u, activeStage)
                           ELSE u
            IN  IF stage.completed THEN finishSessionAt(u1) ELSE u1
    IN  IF t.cooldown /\ ~stage.completed THEN t
        ELSE IF t.delay THEN t
        ELSE IF ~IsNull(stage.justCompletedIndex)
        THEN LET completedKey == LIVENESS_STAGES[Val(stage.justCompletedIndex) + 1]
                 startedAt    == t.stageStartTimes[completedKey]
                 elapsed      == IF IsNull(startedAt) THEN 0 ELSE t.now - Val(startedAt)
             IN  IF elapsed < MIN_STAGE_COMPLETE_MS
                 THEN [t EXCEPT !.delay = TRUE,
                                !.delayTimer =
                                    Some([due   |-> t.now + (MIN_STAGE_COMPLETE_MS - elapsed),
                                          stage |-> stage])]
                 ELSE LET u == handleStageCompletedAt(t, Val(stage.justCompletedIndex))
                      IN  IF ~stage.completed
                          THEN startStageCooldownAt(u, stage.currentStage)
                          ELSE track(resetStageTimerAt(u, stage.currentStage))
        ELSE track(t)

\* the tick that fails the session only once the timeout is exceeded
tickLate(t) ==
    IF t.cooldown \/ t.delay
    THEN [t EXCEPT !.ticked = TRUE]
    ELSE LET start == IF IsNull(t.stageStartTime) THEN t.now ELSE Val(t.stageStartTime)
             t1    == [t EXCEPT !.stageStartTime = Some(start), !.ticked = TRUE]
         IN  IF t.now - start > t1.stageTimeout
             THEN failSessionAt(t1)
             ELSE t1

\* the tick that never finds the stage timed out
tickForever(t) ==
    IF t.cooldown \/ t.delay
    THEN [t EXCEPT !.ticked = TRUE]
    ELSE [t EXCEPT !.stageStartTime = IF IsNull(@) THEN Some(t.now) ELSE @,
                   !.ticked = TRUE]

\* the tick callback of the stage progress effect at the time t.now
tick(t) ==
    IF t.cooldown \/ t.delay
    THEN [t EXCEPT !.ticked = TRUE]
    ELSE LET start   == IF IsNull(t.stageStartTime) THEN t.now ELSE Val(t.stageStartTime)
             t1      == [t EXCEPT !.stageStartTime = Some(start), !.ticked = TRUE]
             elapsed == t.now - start
             timeoutMs == IF t1.stageTimeout # 0 THEN t1.stageTimeout
                          ELSE DEFAULT_STAGE_TIMEOUT_MS
         IN  IF elapsed >= timeoutMs
             THEN failSessionAt(t1)
             ELSE t1

InitTimer == InitProgram /\ probe = TimerInit

\* runLivenessSession once engine.warmup() has resolved
TimedRunSession ==
    /\ probe.sessionState = "READY"
    /\ probe.now + LongestSession <= MaxTicks * TimeStep
    /\ probe' = [resetStageTimerAt([probe EXCEPT !.stageStartTimes = NoStartTimes],
                                   Some(LIVENESS_STAGES[1]))
                   EXCEPT !.sessionState = "IN_PROGRESS",
                          !.result = None,
                          !.active = TRUE,
                          !.stageIndex = 0,
                          !.cooldown = FALSE, !.delay = FALSE,
                          !.cooldownTimer = None, !.delayTimer = None,
                          !.evidence = TimerInit.evidence]
    /\ UNCHANGED program

\* a processFrame call of the inference loop settles; done, the frame
\* completed the current stage
TimedFrame(done) ==
    /\ probe.sessionState = "IN_PROGRESS" /\ probe.active
    /\ ~probe.cooldown /\ ~probe.delay
    /\ probe.stageIndex < Len(LIVENESS_STAGES)
    /\ LET i == probe.stageIndex
           t == [probe EXCEPT !.stageIndex = IF done THEN i + 1 ELSE i]
       IN  probe' = handleLivenessResultAt(t, timedStageStatus(i, done))
    /\ UNCHANGED program

\* an animation frame runs the tick of the stage progress effect
TimedTick ==
    /\ probe.sessionState = "IN_PROGRESS"
    /\ ~probe.ticked
    /\ probe' = tick(probe)
    /\ UNCHANGED program

\* a pending timer whose delay has run out
TimerDue(timer, now) ==
    IF IsNull(timer) THEN FALSE ELSE Val(timer).due <= now

\* the cooldown timer fires
TimedCooldownFires ==
    /\ TimerDue(probe.cooldownTimer, probe.now)
    /\ probe' = resetStageTimerAt([probe EXCEPT !.cooldown = FALSE, !.cooldownTimer = None],
                                  Val(probe.cooldownTimer).next)
    /\ UNCHANGED program

\* the completion delay timer fires
TimedDelayFires ==
    /\ TimerDue(probe.delayTimer, probe.now)
    /\ LET stage == Val(probe.delayTimer).stage
           t     == handleStageCompletedAt(
                        [probe EXCEPT !.delay = FALSE, !.delayTimer = None],
                        Val(stage.justCompletedIndex))
       IN  probe' = IF stage.completed
                    THEN finishSessionAt(t)
                    ELSE startStageCooldownAt(t, stage.currentStage)
    /\ UNCHANGED program

\* the clock advances: animation frames and due timers have run by then
TimePasses ==
    /\ probe.now < MaxTicks * TimeStep
    /\ probe.sessionState = "IN_PROGRESS" => probe.ticked
    /\ ~TimerDue(probe.cooldownTimer, probe.now)
    /\ ~TimerDue(probe.delayTimer, probe.now)
    /\ probe' = [probe EXCEPT !.now = @ + TimeStep, !.ticked = FALSE]
    /\ UNCHANGED program

NextTimer ==
    \/ TimedRunSession
    \/ \E done \in BOOLEAN : TimedFrame(done)
    \/ TimedTick
    \/ TimedCooldownFires
    \/ TimedDelayFires
    \/ TimePasses

SpecTimer == InitTimer /\ [][NextTimer]_vars

\* SpecTimer with the scheduling the browser gives: animation frames keep
\* running the tick, due timers fire, and time goes on
SpecTimerLive ==
    /\ SpecTimer
    /\ WF_vars(TimedTick)
    /\ WF_vars(TimedCooldownFires)
    /\ WF_vars(TimedDelayFires)
    /\ WF_vars(TimePasses)

-----------------------------------------------------------------------------
(* The stage timeout, checked under SpecTimer *)

StageRunning(t) ==
    t.sessionState = "IN_PROGRESS" /\ ~t.cooldown /\ ~t.delay

\* C22: while the session is IN_PROGRESS, the clock never passes the moment a
\* stage has been running for its 3000 ms timeout since the start of that
\* stage's timer: the session has moved to FAILED with result FAIL and the
\* engine session stopped by then.  The session fails only so: never during
\* a stage cooldown or a completion delay, whose time is not counted.
C22_StageTimeout ==
    [][ /\ (probe.sessionState = "IN_PROGRESS" /\ probe'.sessionState = "FAILED")
           => /\ StageRunning(probe)
              /\ probe.now - (IF IsNull(probe.stageStartTime) THEN probe.now
                              ELSE Val(probe.stageStartTime)) >= 3000
              /\ probe'.result = Some("FAIL")
              /\ ~probe'.active
        /\ (probe'.now > probe.now /\ StageRunning(probe))
           => /\ ~IsNull(probe.stageStartTime)
              /\ probe.now - Val(probe.stageStartTime) < 3000
      ]_vars

\* the second stage timed out 3000 ms after the cooldown that followed the first
C22_Witness ==
    /\ probe.sessionState = "FAILED" /\ probe.result = Some("FAIL") /\ ~probe.active
    /\ probe.stageIndex = 1
    /\ probe.now = 5000

-----------------------------------------------------------------------------
(* Specification SpecArtifacts: the evidence artifacts and the console      *)
(* payload of the FaceLiveness component.  probe holds the session state    *)
(* (set, and as committed to the closures of the effects), the artifact     *)
(* refs and what has been downloaded and printed; the engine is reduced to  *)
(* its active flag and stage index.  Stage cooldowns and completion delays  *)
(* only postpone the next frame and are left out.                           *)

StageIndexes == 0 .. Len(LIVENESS_STAGES) - 1

\* payloads printed in a behaviour
MaxPrints == 2

ArtifactsInit ==
    [ sessionState   |-> "READY",
      committed      |-> "READY",
      result         |-> None,
      active         |-> FALSE,
      stageIndex     |-> 0,
      busy           |-> FALSE,
      call           |-> None,
      tickRaf        |-> FALSE,
      artifactsSaved |-> FALSE,
      pendingGifs    |-> {},
      unsettled      |-> {},
      saving         |-> None,
      downloaded     |-> FALSE,
      printed        |-> << >> ]

\* logConsoleResult: the payload is printed
logConsoleResult(p, status) ==
    [p EXCEPT !.printed = Append(@, status)]

\* saveAllArtifacts up to its first await, and the .then of its caller when
\* it returns at once
saveAllArtifacts(p, status) ==
    IF p.artifactsSaved
    THEN logConsoleResult(p, status)
    ELSE [p EXCEPT !.artifactsSaved = TRUE,
                   !.saving = Some([awaited |-> p.pendingGifs, status |-> status]),
                   !.pendingGifs = {}]

\* finishSession and failSession as created by a render whose sessionState
\* was cs: the engine is stopped, the state set, the artifacts saved
endSession(p, cs, sessionState, status) ==
    IF cs \in {"COMPLETED", "FAILED"} THEN p
    ELSE saveAllArtifacts([p EXCEPT !.active = FALSE,
                                    !.tickRaf = FALSE,
                                    !.busy = IF status = "FAIL" THEN FALSE ELSE @,
                                    !.sessionState = sessionState,
                                    !.result = Some(status)],
                          status)

\* handleStageCompleted: the GIF of the stage is started and its promise kept
handleStageCompleted(p, i) ==
    [p EXCEPT !.pendingGifs = @ \cup {i}, !.unsettled = @ \cup {i}]

\* handleLivenessResult as created by a render whose sessionState was cs,
\* for a frame that was not given several faces
artifactsResult(p, stage, cs) ==
    LET p1 == IF IsNull(stage.justCompletedIndex) THEN p
              ELSE handleStageCompleted(p, Val(stage.justCompletedIndex))
    IN  IF stage.completed
        THEN endSession(p1, cs, "COMPLETED", "PASS")
        ELSE p1

InitArtifacts == InitProgram /\ probe = ArtifactsInit

\* runLivenessSession once engine.warmup() has resolved
ArtRunSession ==
    /\ probe.committed = "READY" /\ probe.sessionState = "READY"
    /\ probe' = [probe EXCEPT !.sessionState = "IN_PROGRESS",
                              !.result = None,
                              !.active = TRUE,
                              !.stageIndex = 0,
                              !.pendingGifs = {},
                              !.artifactsSaved = FALSE]
    /\ UNCHANGED program

\* React commits the session state: the effects run again with it
ArtCommit ==
    /\ probe.committed # probe.sessionState
    /\ probe' = [probe EXCEPT !.committed = probe.sessionState,
                              !.tickRaf = probe.sessionState = "IN_PROGRESS"]
    /\ UNCHANGED program

\* an animation frame runs the inference loop: processFrame is called, and
\* returns the stage status at once when no session is active
ArtLoop ==
    /\ probe.committed = "IN_PROGRESS" /\ ~probe.busy
    /\ Len(probe.printed) < MaxPrints
    /\ probe' = IF probe.active
                THEN [probe EXCEPT !.busy = TRUE, !.call = Some(probe.committed)]
                ELSE artifactsResult(probe,
                                     timedStageStatus(probe.stageIndex, FALSE),
                                     probe.committed)
    /\ UNCHANGED program

\* the processFrame call in flight settles; done, its frame completed the
\* current stage
ArtFrameSettles(done) ==
    /\ ~IsNull(probe.call)
    /\ Len(probe.printed) < MaxPrints
    /\ done => probe.stageIndex < Len(LIVENESS_STAGES)
    /\ LET i == probe.stageIndex
           p == [probe EXCEPT !.stageIndex = IF done THEN i + 1 ELSE i,
                              !.call = None]
       IN  probe' = [artifactsResult(p, timedStageStatus(i, done), Val(probe.call))
                        EXCEPT !.busy = FALSE]
    /\ UNCHANGED program

\* the tick of the stage progress effect finds the stage timed out
ArtTimeout ==
    /\ probe.committed = "IN_PROGRESS" /\ probe.tickRaf
    /\ probe' = endSession(probe, probe.committed, "FAILED", "FAIL")
    /\ UNCHANGED program

\* the generation of an evidence GIF settles
ArtGifSettles(i) ==
    /\ i \in probe.unsettled
    /\ probe' = [probe EXCEPT !.unsettled = @ \ {i}]
    /\ UNCHANGED program

\* saveAllArtifacts once the promises it awaits have settled: the GIFs and
\* the face image are downloaded
ArtDownload ==
    /\ ~IsNull(probe.saving) /\ ~probe.downloaded
    /\ Val(probe.saving).awaited \cap probe.unsettled = {}
    /\ probe' = [probe EXCEPT !.downloaded = TRUE]
    /\ UNCHANGED program

\* saveAllArtifacts resolves: the .then of its caller prints the payload
ArtPrint ==
    /\ ~IsNull(probe.saving) /\ probe.downloaded
    /\ Len(probe.printed) < MaxPrints
    /\ probe' = [logConsoleResult(probe, Val(probe.saving).status) EXCEPT !.saving = None]
    /\ UNCHANGED program

NextArtifacts ==
    \/ ArtRunSession
    \/ ArtCommit
    \/ ArtLoop
    \/ \E done \in BOOLEAN : ArtFrameSettles(done)
    \/ ArtTimeout
    \/ \E i \in StageIndexes : ArtGifSettles(i)
    \/ ArtDownload
    \/ ArtPrint

SpecArtifacts == InitArtifacts /\ [][NextArtifacts]_vars

-----------------------------------------------------------------------------
(* The order of the artifacts and the payload, checked under SpecArtifacts *)

\* C23: when the session ends, the payload is printed only after every
\* evidence GIF that was pending when the session ended has settled and the
\* downloads of the GIFs and the face image have been attempted.
C23_PayloadAfterDownloads ==
    [][ Len(probe'.printed) > Len(probe.printed)
          => /\ probe.downloaded
             /\ probe.artifactsSaved
             /\ \/ IsNull(probe.saving)
                \/ Val(probe.saving).awaited \cap probe.unsettled = {}
      ]_vars

-----------------------------------------------------------------------------
(* Further properties of the stage machine, checked under Spec *)

\* the running state as the measurements of the frame det leave it, before
\* the stage is evaluated
Measured(st, det) ==
    LET s1 == [st EXCEPT !.nodRange   = updateRangeState(@, computeNodRatio(det)),
                         !.shakeRange = updateRangeState(@, computeShakeRatio(det))]
        s2 == updateBlinkState(computeBlinkRatios(det), s1)
    IN  updateMouthState(computeMouthRatio(det), s2)

\* the step in which an accepted frame completes the stage at index k
CompletingStep(k) ==
    /\ AcceptedStep
    /\ state.stageIndex = k
    /\ state'.stageIndex = k + 1

\* C24: the frame that completes a stage resets the state of that stage only:
\* the nod range for nod, the shake range for shake, the two blink flags (the
\* eye average is kept) for blink, the two mouth flags for mouth; the running
\* state of the other stages is as the frame's measurements left it.
C24_OnlyOwnStageReset ==
    [][ \A k \in 0 .. Len(LIVENESS_STAGES) - 1 :
          CompletingStep(k) =>
            LET m == Measured(state, Val(Val(ret').detection))
            IN  /\ state'.nodRange   = IF k = 0 THEN EmptyRange ELSE m.nodRange
                /\ state'.shakeRange = IF k = 1 THEN EmptyRange ELSE m.shakeRange
                /\ state'.blink = IF k = 2
                                  THEN [ closedDetected |-> FALSE, openDetected |-> FALSE,
                                         eyeAvg |-> m.blink.eyeAvg ]
                                  ELSE m.blink
                /\ state'.mouth = IF k = 3
                                  THEN [openDetected |-> FALSE, closedDetected |-> FALSE]
                                  ELSE m.mouth
      ]_vars

\* the blink stage was completed: its flags are reset, the moved eye average
\* and the ranges of nod and shake are kept
C24_Witness ==
    /\ ret # None
    /\ Val(ret).stage.justCompletedIndex = Some(2)
    /\ state.stageIndex = 3
    /\ ~state.blink.closedDetected /\ ~state.blink.openDetected
    /\ state.blink.eyeAvg.exp = 1
    /\ ~IsNull(state.nodRange.min)
    /\ ~IsNull(state.shakeRange.min)

\* the blink ratio of the frame returned as res, Infinity when it has none
ReportedBlinkRatio(res) ==
    IF IsNull(res.metrics) THEN Infinity
    ELSE IF IsNull(Val(res.metrics).blink) THEN Infinity
    ELSE Val(Val(res.metrics).blink).ratio

ReturnStep ==
    \/ \E c \in DOMAIN pc : pc[c].at # "idle" /\ pc'[c].at = "idle"
    \/ ret' # ret

\* C26: the stage status a call returns names a completed stage exactly when
\* the evaluation of that frame advanced the stage, and then it names the
\* stage that was current before the frame and its index; a frame without a
\* detection, and an accepted frame that does not satisfy the predicate of
\* the current stage, leave stageIndex as it was and name none.
C26_JustCompleted ==
    [][ (ReturnStep /\ session' = session /\ ret' # None) =>
          LET stage    == Val(ret').stage
              advanced == state'.stageIndex # state.stageIndex
          IN  /\ ~IsNull(stage.justCompletedIndex) <=> advanced
              /\ ~IsNull(stage.justCompletedStage) <=> advanced
              /\ advanced =>
                    /\ stage.justCompletedIndex = Some(state.stageIndex)
                    /\ stage.justCompletedStage = Some(LIVENESS_STAGES[state.stageIndex + 1])
              /\ IsNull(Val(ret').detection) => ~advanced
              /\ (AcceptedStep /\ ~StagePredicate(state, Val(ret'))) => ~advanced
      ]_vars

\* an accepted frame at the nod stage whose spread is below the threshold:
\* the stage is unchanged and no completed stage is named
C26_Witness ==
    /\ ret # None
    /\ ~IsNull(Val(ret).detection)
    /\ state.active /\ state.stageIndex = 0
    /\ Val(Val(ret).metrics).nodSpread = Some(3)
    /\ IsNull(Val(ret).stage.justCompletedIndex)
    /\ IsNull(Val(ret).stage.justCompletedStage)

-----------------------------------------------------------------------------
(* Specification SpecCache: the anchor-center cache of SCRFDDetector.       *)
(* probe holds the cache, the number of anchors per cell of the loaded      *)
(* model, and the key and result of the last getAnchorCenters call.  The    *)
(* feature-map shapes are numbered, and a shape is first asked for once     *)
(* the shapes before it have been.                                          *)

centerCacheLimit == 100

featStrideFpn == <<8, 16, 32>>

\* widths of the feature maps asked for; their heights are 1 and 2
MaxGridWidth == 17

GridShapes == 1 .. 2 * MaxGridWidth * Len(featStrideFpn)

\* the n-th shape: height, width, stride
GridShape(n) ==
    [ height |-> ((n - 1) \div (Len(featStrideFpn) * MaxGridWidth)) + 1,
      width  |-> (((n - 1) \div Len(featStrideFpn)) % MaxGridWidth) + 1,
      stride |-> featStrideFpn[((n - 1) % Len(featStrideFpn)) + 1] ]

\* the key of the cache: the string `${height}-${width}-${stride}`
CacheKey(shape) == <<shape.height, shape.width, shape.stride>>

\* the grid getAnchorCenters computes: for each cell, row by row, the point
\* (x * stride, y * stride) once per anchor
AnchorGrid(shape, numAnchors) ==
    [ p \in 1 .. shape.height * shape.width * numAnchors |->
        LET cell == (p - 1) \div numAnchors
        IN  << (cell % shape.width) * shape.stride,
               (cell \div shape.width) * shape.stride >> ]

\* getAnchorCenters that stores the grid whatever the size of the cache
getAnchorCentersCachedAlways(cache, shape, numAnchors) ==
    LET key == CacheKey(shape)
    IN  IF key \in DOMAIN cache
        THEN [cache |-> cache, centers |-> cache[key]]
        ELSE LET centers == AnchorGrid(shape, numAnchors)
             IN  [ cache   |-> [k \in DOMAIN cache \cup {key} |->
                                   IF k = key THEN centers ELSE cache[k]],
                   centers |-> centers ]

\* getAnchorCenters: the cache it leaves and the grid it returns
getAnchorCentersCached(cache, shape, numAnchors) ==
    LET key == CacheKey(shape)
    IN  IF key \in DOMAIN cache
        THEN [cache |-> cache, centers |-> cache[key]]
        ELSE LET centers == AnchorGrid(shape, numAnchors)
             IN  [ cache   |-> IF Cardinality(DOMAIN cache) < centerCacheLimit
                               THEN [k \in DOMAIN cache \cup {key} |->
                                        IF k = key THEN centers ELSE cache[k]]
                               ELSE cache,
                   centers |-> centers ]

EmptyCache == [k \in {} |-> << >>]

InitCache ==
    /\ InitProgram
    /\ probe \in { [ cache |-> EmptyCache, numAnchors |-> a, asked |-> 0,
                     key |-> None, centers |-> None ] : a \in {1, 2} }

\* postprocess asks for the anchor centers of the n-th shape
GetAnchorCenters(n) ==
    /\ n <= probe.asked + 1
    /\ LET r == getAnchorCentersCached(probe.cache, GridShape(n), probe.numAnchors)
       IN  probe' = [probe EXCEPT !.cache = r.cache,
                                  !.asked = Max2(@, n),
                                  !.key = Some(CacheKey(GridShape(n))),
                                  !.centers = Some(r.centers)]
    /\ UNCHANGED program

NextCache == \E n \in GridShapes : GetAnchorCenters(n)

SpecCache == InitCache /\ [][NextCache]_vars

-----------------------------------------------------------------------------
(* The anchor-center cache, checked under SpecCache *)

\* C27: the cache never holds more than 100 entries; a key is stored only
\* while the cache holds fewer than 100; an entry is never evicted or
\* overwritten; the lookup of a cached key returns the stored grid.
C27_CacheBounded ==
    [][ /\ Cardinality(DOMAIN probe'.cache) <= 100
        /\ DOMAIN probe'.cache # DOMAIN probe.cache
              => Cardinality(DOMAIN probe.cache) < 100
        /\ \A k \in DOMAIN probe.cache :
              k \in DOMAIN probe'.cache /\ probe'.cache[k] = probe.cache[k]
        /\ Val(probe'.key) \in DOMAIN probe.cache
              => probe'.centers = Some(probe.cache[Val(probe'.key)])
      ]_vars

\* the cache is full, and a shape that was not stored was asked for
C27_Witness ==
    /\ Cardinality(DOMAIN probe.cache) = 100
    /\ ~IsNull(probe.key)
    /\ Val(probe.key) \notin DOMAIN probe.cache
    /\ Len(Val(probe.centers)) = 2 * 17 * probe.numAnchors

-----------------------------------------------------------------------------
(* Specification SpecFetch: SCRFDDetector.asArrayBuffer over its candidate  *)
(* sources.  probe holds the candidates (for a URL, what fetch gives for    *)
(* it), the index of the next one, the messages collected, and the outcome. *)

MaxCandidates == 3

\* the first characters of a payload, as text
HeaderTexts ==
    { <<"<", "!", "D", "O", "C", "T", "Y", "P", "E">>,
      <<"<", "h", "t", "m", "l">>,
      <<"<", "!", "-", "-">>,
      <<"08", "07", "12">>,
      << >> }

ContentTypes == {"", "application/octet-stream", "text/html", "text/html; charset=utf-8"}

\* contentType.includes('text/html')
IncludesTextHtml(contentType) ==
    contentType \in {"text/html", "text/html; charset=utf-8"}

\* String.prototype.toLowerCase on one character
LowerChar(ch) ==
    CASE ch = "D" -> "d" [] ch = "O" -> "o" [] ch = "C" -> "c" [] ch = "T" -> "t"
      [] ch = "Y" -> "y" [] ch = "P" -> "p" [] ch = "E" -> "e" [] OTHER -> ch

toLowerCase(text) == [i \in 1 .. Len(text) |-> LowerChar(text[i])]

startsWith(text, prefix) ==
    /\ Len(text) >= Len(prefix)
    /\ \A i \in 1 .. Len(prefix) : text[i] = prefix[i]

\* what fetch gives for a URL: it throws, or a response
FetchOutcomes ==
    { [kind |-> "throws"] }
    \cup { [kind |-> "response", ok |-> FALSE, contentType |-> "text/html", header |-> << >>] }
    \cup { [kind |-> "response", ok |-> TRUE, contentType |-> t, header |-> h] :
              t \in ContentTypes, h \in HeaderTexts }

\* a candidate: an ArrayBuffer, or a URL with what fetch gives for it
Candidates == { [kind |-> "buffer"] } \cup FetchOutcomes

\* the test of fetchModelFromUrl for a payload that is HTML
IsHtmlPayload(resp) ==
    LET lowerHeader == toLowerCase(resp.header)
    IN  \/ IncludesTextHtml(resp.contentType)
        \/ startsWith(lowerHeader, <<"<", "!", "d", "o", "c", "t", "y", "p", "e">>)
        \/ startsWith(lowerHeader, <<"<", "h", "t", "m", "l">>)
        \/ startsWith(lowerHeader, <<"<", "!", "d", "o">>)
        \/ startsWith(lowerHeader, <<"<", "!", "h", "t">>)

\* fetchModelFromUrl without its test for HTML
fetchModelFromUrlUnchecked(entry, i) ==
    IF entry.kind = "throws"
    THEN [ok |-> FALSE, message |-> <<"fetch", i>>]
    ELSE IF ~entry.ok
    THEN [ok |-> FALSE, message |-> <<"HTTP", i>>]
    ELSE [ok |-> TRUE, buffer |-> i]

\* fetchModelFromUrl for the i-th candidate: the bytes, or the error thrown
fetchModelFromUrl(entry, i) ==
    IF entry.kind = "throws"
    THEN [ok |-> FALSE, message |-> <<"fetch", i>>]
    ELSE IF ~entry.ok
    THEN [ok |-> FALSE, message |-> <<"HTTP", i>>]
    ELSE IF IsHtmlPayload(entry)
    THEN [ok |-> FALSE, message |-> <<"HTML", i>>]
    ELSE [ok |-> TRUE, buffer |-> i]

\* one turn of the loop of asArrayBuffer, for the candidate at p.next
asArrayBufferTurn(p) ==
    LET entry == p.candidates[p.next]
        got   == IF entry.kind = "buffer"
                 THEN [ok |-> TRUE, buffer |-> p.next]
                 ELSE fetchModelFromUrl(entry, p.next)
    IN  IF got.ok
        THEN [p EXCEPT !.outcome = Some([returned |-> TRUE, buffer |-> got.buffer])]
        ELSE [p EXCEPT !.errors = Append(@, got.message), !.next = @ + 1]

CandidateLists ==
    UNION { [1 .. n -> Candidates] : n \in 0 .. MaxCandidates }

InitFetch ==
    /\ InitProgram
    /\ probe \in { [candidates |-> cs, next |-> 1, errors |-> << >>, outcome |-> None] :
                      cs \in CandidateLists }

\* asArrayBuffer tries the next candidate
TryCandidate ==
    /\ IsNull(probe.outcome)
    /\ probe.next <= Len(probe.candidates)
    /\ probe' = asArrayBufferTurn(probe)
    /\ UNCHANGED program

\* asArrayBuffer is past its loop: it throws the messages collected
AllCandidatesFailed ==
    /\ IsNull(probe.outcome)
    /\ probe.next > Len(probe.candidates)
    /\ probe' = [probe EXCEPT !.outcome = Some([returned |-> FALSE, messages |-> probe.errors])]
    /\ UNCHANGED program

NextFetch == TryCandidate \/ AllCandidatesFailed

SpecFetch == InitFetch /\ [][NextFetch]_vars

-----------------------------------------------------------------------------
(* The acquisition of a model, checked under SpecFetch *)

\* a candidate that gives a payload: an ArrayBuffer, or a URL whose response
\* is ok and is not HTML by its content type or by its first characters
ValidCandidate(entry) ==
    \/ entry.kind = "buffer"
    \/ /\ entry.kind = "response"
       /\ entry.ok
       /\ entry.contentType \notin {"text/html", "text/html; charset=utf-8"}
       /\ entry.header \notin { <<"<", "!", "D", "O", "C", "T", "Y", "P", "E">>,
                                <<"<", "h", "t", "m", "l">> }

\* C28: the candidates are tried in order and the bytes of the first valid
\* one are returned; a payload that is HTML counts as a failed fetch and the
\* next candidate is tried; the load fails, with one message per candidate,
\* only when every candidate failed.
C28_FirstValidCandidate ==
    ~IsNull(probe.outcome) =>
        LET cs    == probe.candidates
            valid == { i \in 1 .. Len(cs) : ValidCandidate(cs[i]) }
            out   == Val(probe.outcome)
        IN  /\ out.returned <=> valid # {}
            /\ out.returned =>
                  /\ out.buffer \in valid
                  /\ \A i \in valid : out.buffer <= i
                  /\ Len(probe.errors) = out.buffer - 1
            /\ ~out.returned =>
                  /\ Len(out.messages) = Len(cs)
                  /\ \A i \in 1 .. Len(cs) : out.messages[i][2] = i

\* two HTML payloads, one by its content type and one by its first
\* characters, were passed over and the third candidate's bytes returned
C28_Witness ==
    /\ ~IsNull(probe.outcome)
    /\ Val(probe.outcome).returned
    /\ Val(probe.outcome).buffer = 3
    /\ probe.errors = << <<"HTML", 1>>, <<"HTML", 2>> >>
    /\ probe.candidates[1].contentType = "text/html; charset=utf-8"
    /\ probe.candidates[2].contentType = "application/octet-stream"

-----------------------------------------------------------------------------
(* Specification SpecSession: createOrtSession.  probe holds what           *)
(* InferenceSession.create gives on its first and second call, the calls    *)
(* made, the backend setting (ort.env.wasm, which onnxruntime-web always    *)
(* provides) and the outcome.                                               *)

\* what is thrown: an Error with a message (its words), or a value that is
\* not an Error
ThrownValues ==
    { [isError |-> TRUE,  message |-> <<"SIMD", "is", "not", "supported">>],
      [isError |-> TRUE,  message |-> <<"wasm", "simd", "unavailable">>],
      [isError |-> TRUE,  message |-> <<"No", "available", "backend", "found">>],
      [isError |-> TRUE,  message |-> <<"no", "backend", "available">>],
      [isError |-> TRUE,  message |-> <<"protobuf", "parsing", "failed">>],
      [isError |-> TRUE,  message |-> <<"out", "of", "memory">>],
      [isError |-> FALSE, message |-> <<"simd">>] }

CreateOutcomes == { [ok |-> TRUE] } \cup { [ok |-> FALSE, thrown |-> t] : t \in ThrownValues }

LowerWord(w) ==
    CASE w = "SIMD" -> "simd" [] w = "No" -> "no" [] OTHER -> w

\* /simd/i.test(msg) || /no available backend/i.test(msg), on the words of msg
MatchesSimdOrBackend(msg) ==
    LET low == [i \in 1 .. Len(msg) |-> LowerWord(msg[i])]
    IN  \/ \E i \in 1 .. Len(low) : low[i] = "simd"
        \/ \E i \in 1 .. Len(low) - 2 :
              low[i] = "no" /\ low[i + 1] = "available" /\ low[i + 2] = "backend"

\* isSimdUnavailableError that takes any thrown value for one
isSimdUnavailableErrorAny(err) == TRUE

isSimdUnavailableError(err) ==
    LET msg == IF err.isError THEN err.message ELSE << >>
    IN  MatchesSimdOrBackend(msg)

SessionInit(first, second) ==
    [ first   |-> first,
      second  |-> second,
      calls   |-> 0,
      scalar  |-> FALSE,
      scalarAtCall |-> <<>>,
      outcome |-> None ]

InitSession ==
    /\ InitProgram
    /\ probe \in { SessionInit(a, b) : a \in CreateOutcomes, b \in CreateOutcomes }

\* createOrtSession up to the settling of its first InferenceSession.create
FirstCreate ==
    /\ probe.calls = 0
    /\ LET p == [probe EXCEPT !.calls = 1, !.scalarAtCall = Append(@, probe.scalar)]
       IN  probe' =
             IF probe.first.ok
             THEN [p EXCEPT !.outcome = Some([ok |-> TRUE, session |-> 1])]
             ELSE IF isSimdUnavailableError(probe.first.thrown)
                  THEN [p EXCEPT !.scalar = TRUE]
                  ELSE [p EXCEPT !.outcome = Some(probe.first)]
    /\ UNCHANGED program

\* the second InferenceSession.create, made in the catch block, settles
RetryCreate ==
    /\ probe.calls = 1 /\ IsNull(probe.outcome)
    /\ LET p == [probe EXCEPT !.calls = 2, !.scalarAtCall = Append(@, probe.scalar)]
       IN  probe' =
             IF probe.second.ok
             THEN [p EXCEPT !.outcome = Some([ok |-> TRUE, session |-> 2])]
             ELSE [p EXCEPT !.outcome = Some(probe.second)]
    /\ UNCHANGED program

NextSession == FirstCreate \/ RetryCreate

SpecSession == InitSession /\ [][NextSession]_vars

-----------------------------------------------------------------------------
(* The creation of an inference session, checked under SpecSession *)

\* an Error whose message names SIMD or the lack of an available backend
SimdOrBackendError(t) ==
    /\ t.isError
    /\ t.message \in { <<"SIMD", "is", "not", "supported">>,
                       <<"wasm", "simd", "unavailable">>,
                       <<"No", "available", "backend", "found">> }

\* C29: InferenceSession.create is called at most twice; the second call is
\* made only after the first failed with a SIMD or no-available-backend
\* error, and with the scalar backend forced; any other error of the first
\* call, and any error of the second, is thrown on without a further call.
C29_RetryOnce ==
    /\ probe.calls <= 2
    /\ probe.calls = 2 =>
          /\ ~probe.first.ok /\ SimdOrBackendError(probe.first.thrown)
          /\ probe.scalarAtCall = <<FALSE, TRUE>>
    /\ (probe.calls >= 1 /\ ~probe.first.ok /\ ~SimdOrBackendError(probe.first.thrown)) =>
          /\ probe.calls = 1
          /\ probe.outcome = Some(probe.first)
    /\ (probe.calls = 2 /\ ~probe.second.ok) => probe.outcome = Some(probe.second)
    /\ (probe.calls = 2 /\ probe.second.ok) => probe.outcome = Some([ok |-> TRUE, session |-> 2])
    /\ (probe.calls >= 1 /\ probe.first.ok) =>
          probe.calls = 1 /\ probe.outcome = Some([ok |-> TRUE, session |-> 1])

\* the first call failed for want of a backend, the retry on the scalar
\* backend failed too, and its error was thrown
C29_Witness ==
    /\ probe.calls = 2
    /\ probe.first = [ok |-> FALSE,
                      thrown |-> [isError |-> TRUE,
                                  message |-> <<"No", "available", "backend", "found">>]]
    /\ probe.outcome = Some([ok |-> FALSE,
                             thrown |-> [isError |-> TRUE,
                                         message |-> <<"protobuf", "parsing", "failed">>]])
    /\ probe.scalar

-----------------------------------------------------------------------------
(* The stopped engine, checked under Spec *)

\* C30: while the session is stopped, from the return of stopSession to the
\* next startSession, no processFrame call, one in flight at the stop
\* included, advances stageIndex, sets completed, or changes the ranges,
\* the blink state or the mouth state.
C30_StoppedIsQuiet ==
    [][ (~state.active /\ ~state'.active) =>
          /\ state'.stageIndex = state.stageIndex
          /\ state'.completed = state.completed
          /\ state'.nodRange = state.nodRange
          /\ state'.shakeRange = state.shakeRange
          /\ state'.blink = state.blink
          /\ state'.mouth = state.mouth
      ]_vars

-----------------------------------------------------------------------------
(* The verdict of a session, checked under SpecArtifacts *)

\* C31: the verdict of a session is final and unique: a session failed by the
\* stage timeout stays FAILED with result FAIL, whatever a processFrame call
\* still in flight returns afterwards, and at most one payload is printed.
C31_VerdictFinal ==
    [][ /\ probe.sessionState = "FAILED" =>
              /\ probe'.sessionState = "FAILED"
              /\ probe'.result = Some("FAIL")
        /\ Len(probe'.printed) <= 1
      ]_vars

-----------------------------------------------------------------------------
(* The end of a session, checked under SpecTimerLive *)

\* C32: every session that reaches IN_PROGRESS reaches COMPLETED or FAILED,
\* whatever the frames give (a frame that completes no stage stands for a
\* frame without a face, with several faces or without landmarks as well),
\* while animation frames and timers keep firing.
C32_SessionEnds ==
    (probe.sessionState = "IN_PROGRESS")
        ~> (probe.sessionState \in {"COMPLETED", "FAILED"})

\* a session passed its four stages and ended with the verdict PASS
C32_Witness ==
    /\ probe.sessionState = "COMPLETED" /\ probe.result = Some("PASS")
    /\ probe.stageIndex = Len(LIVENESS_STAGES)
    /\ probe.now >= 7000

-----------------------------------------------------------------------------
(* The inactive engine, checked under Spec *)

\* the step in which processFrame is called while no session is active
InactiveCallStep ==
    /\ ~state.active
    /\ session' = session
    /\ pc' = pc
    /\ ret' # ret \/ hist' # hist

\* C33: a processFrame call made while no session is active starts no
\* inference, changes nothing in the engine state, and returns detection
\* null and metrics null with the current stage status; a call starts its
\* inference only in an active session, and a completed session stays
\* completed until the next startSession.
C33_InactiveCall ==
    [][ /\ InactiveCallStep =>
              /\ state' = state
              /\ ret' # None
              /\ IsNull(Val(ret').detection)
              /\ IsNull(Val(ret').metrics)
              /\ Val(ret').stage.completed = state.completed
              /\ Val(ret').stage.currentStage = getCurrentStage(state)
              /\ IsNull(Val(ret').stage.justCompletedIndex)
        /\ \A c \in DOMAIN pc :
              (pc[c].at = "idle" /\ pc'[c].at # "idle") => state.active /\ state' = state
        /\ (state.completed /\ session' = session) => state'.completed
      ]_vars

\* a call made after the four stages were completed returned the completed
\* stage status
C33_Witness ==
    /\ state.completed /\ ~state.active
    /\ ret # None
    /\ IsNull(Val(ret).detection)
    /\ Val(ret).stage.completed
    /\ IsNull(Val(ret).stage.justCompletedIndex)
    /\ IsNull(hist.faces)

-----------------------------------------------------------------------------
(* Cooldowns and completion delays, checked under SpecUI *)

\* C34: while a stage cooldown or a completion delay is active the loop
\* issues no processFrame call, and the stage of the engine does not advance.
C34_QuietCooldown ==
    [][ (ui.cooldown \/ ui.delay) =>
          /\ \A c \in DOMAIN pc : pc[c].at = "idle" => pc'[c].at = "idle"
          /\ ui.busy \/ ~ui'.busy
          /\ state'.stageIndex = state.stageIndex
          /\ state'.completed = state.completed
      ]_vars

\* a cooldown after the first stage, with the loop waiting for its next frame
C34_Witness ==
    /\ ui.cooldown
    /\ ui.loop.live /\ ui.loop.raf /\ ~ui.busy
    /\ ui.closure.sessionState = "IN_PROGRESS" /\ ui.closure.isEngineReady
    /\ state.active /\ state.stageIndex = 1

-----------------------------------------------------------------------------
(* The minimum time of a stage, checked under SpecTimer *)

\* the step acknowledges the completion of the stage at index i
Acknowledges(i) == probe'.evidence[i + 1] > probe.evidence[i + 1]

\* C35: the completion of a stage is acknowledged (its evidence requested,
\* then the cooldown or the end of the session) only once MIN_STAGE_COMPLETE_MS
\* have passed since the timer of that stage started, also when the engine
\* reported it earlier; it is acknowledged once, for the index the engine has
\* just completed, and no completed stage stays without acknowledgement
\* except while its completion delay runs.
C35_AcknowledgedInTime ==
    [][ /\ \A i \in 0..(Len(LIVENESS_STAGES) - 1) :
              /\ Acknowledges(i) =>
                    LET startedAt == probe.stageStartTimes[LIVENESS_STAGES[i + 1]]
                    IN  /\ ~IsNull(startedAt)
                        /\ probe.now - Val(startedAt) >= MIN_STAGE_COMPLETE_MS
                        /\ probe'.stageIndex = i + 1
                        /\ probe'.evidence[i + 1] = 1
                        /\ \A j \in 0..(Len(LIVENESS_STAGES) - 1) :
                              j # i => ~Acknowledges(j)
              /\ i < probe'.stageIndex =>
                    \/ probe'.evidence[i + 1] = 1
                    \/ /\ i = probe'.stageIndex - 1
                       /\ probe'.delay
                       /\ ~IsNull(probe'.delayTimer)
                       /\ Val(probe'.delayTimer).stage.justCompletedIndex = Some(i)
              /\ i >= probe'.stageIndex => probe'.evidence[i + 1] = 0
      ]_vars

\* the first stage, completed before its minimum time, was acknowledged when
\* that time had passed, and the cooldown runs
C35_Witness ==
    /\ probe.sessionState = "IN_PROGRESS"
    /\ probe.stageIndex = 1 /\ probe.evidence[1] = 1
    /\ probe.cooldown /\ ~probe.delay
    /\ ~IsNull(probe.stageStartTimes[LIVENESS_STAGES[1]])
    /\ probe.now - Val(probe.stageStartTimes[LIVENESS_STAGES[1]]) = MIN_STAGE_COMPLETE_MS

-----------------------------------------------------------------------------
(* The key frame across session resets, checked under SpecFrame *)

\* the step is a reset of the session: startCamera, stopCamera, failSession
\* or the start of runLivenessSession
SessionReset ==
    /\ keyFrame'.sessionState # keyFrame.sessionState
    /\ keyFrame.sessionState # "LOADING"
    /\ keyFrame'.sessionState \in {"READY", "IDLE", "FAILED", "LOADING"}

\* images.faceFull and images.faceCrop of buildConsolePayload
PayloadImages(k) ==
    [ faceFull |-> IF k.keyFrameFull # NoFrame THEN k.keyFrameFull
                   ELSE k.keyFrameImage,
      faceCrop |-> k.keyFrameOriginal ]

\* C36: a reset of the session clears the best score, the preview, the
\* cropped face and the full-frame image together, so that a payload built
\* after it reports no face image of the session before.
C36_ResetClearsKeyFrame ==
    [][ SessionReset =>
          /\ keyFrame'.keyFrameScore = -Infinity
          /\ keyFrame'.keyFrameImage = NoFrame
          /\ keyFrame'.keyFrameOriginal = NoFrame
          /\ keyFrame'.keyFrameFull = NoFrame
          /\ PayloadImages(keyFrame').faceFull = NoFrame
          /\ PayloadImages(keyFrame').faceCrop = NoFrame
      ]_vars

-----------------------------------------------------------------------------
(* What one frame records of the eyes and the mouth, checked under Spec *)

\* the observations updateBlinkState and updateMouthState record for the
\* frame det met in the state st, none being recorded before
Recorded(st, det) ==
    LET clean == resetMouthState(resetBlinkDetections(st, FALSE))
        s1    == updateMouthState(computeMouthRatio(det),
                                  updateBlinkState(computeBlinkRatios(det), clean))
    IN  [ closed      |-> s1.blink.closedDetected,
          open        |-> s1.blink.openDetected,
          mouthOpen   |-> s1.mouth.openDetected,
          mouthClosed |-> s1.mouth.closedDetected ]

\* C37: an accepted frame records not both a closed and an open blink and not
\* both an open and a closed mouth; a zero eye height records closed, eye
\* ratios equal to the threshold record neither, and the threshold is eyeAvg
\* as it is before the frame updates it.  The observations of the state
\* after the frame are those before it and those of the frame, unless the
\* frame completes the stage.
C37_OneObservation ==
    [][ AcceptedStep =>
          LET det == Val(Val(ret').detection)
              r   == Recorded(state, det)
              b   == computeBlinkRatios(det)
              avg == state.blink.eyeAvg
          IN  /\ ~(r.closed /\ r.open)
              /\ ~(r.mouthOpen /\ r.mouthClosed)
              /\ ~IsNull(b) =>
                    LET m == Val(b)
                    IN  /\ (m.leftHeight = 0 \/ m.rightHeight = 0)
                              => r.closed /\ ~r.open
                        /\ ( /\ m.leftHeight > 0 /\ m.rightHeight > 0
                             /\ ~AboveAvg(m.leftRatio, avg) /\ ~BelowAvg(m.leftRatio, avg)
                             /\ ~AboveAvg(m.rightRatio, avg) /\ ~BelowAvg(m.rightRatio, avg) )
                              => ~r.closed /\ ~r.open
                        /\ r.closed <=>
                              \/ m.leftHeight = 0 \/ m.rightHeight = 0
                              \/ AboveAvg(m.leftRatio, avg) /\ AboveAvg(m.rightRatio, avg)
                        /\ r.open <=>
                              /\ m.leftHeight > 0 /\ m.rightHeight > 0
                              /\ BelowAvg(m.leftRatio, avg) /\ BelowAvg(m.rightRatio, avg)
              /\ IsNull(b) => ~r.closed /\ ~r.open
              /\ state'.stageIndex = state.stageIndex =>
                    /\ state'.blink.closedDetected = (state.blink.closedDetected \/ r.closed)
                    /\ state'.blink.openDetected = (state.blink.openDetected \/ r.open)
                    /\ state'.mouth.openDetected = (state.mouth.openDetected \/ r.mouthOpen)
                    /\ state'.mouth.closedDetected
                           = (state.mouth.closedDetected \/ r.mouthClosed)
      ]_vars

\* a frame with shut eyes and an open mouth was accepted as the first of a
\* session: closed eyes and an open mouth are recorded, and nothing else
C37_Witness ==
    /\ state.active /\ state.stageIndex = 0
    /\ ret # None
    /\ ~IsNull(Val(ret).detection)
    /\ ~IsNull(Val(Val(ret).detection).eyes)
    /\ Val(Val(Val(ret).detection).eyes).leftHeight = 0
    /\ state.blink.closedDetected /\ ~state.blink.openDetected
    /\ state.mouth.openDetected /\ ~state.mouth.closedDetected

-----------------------------------------------------------------------------
(* FaceLiveness: the evidence frames kept per stage (stageFrameBufferRef).  *)
(* probe holds                                                              *)
(*   buffers  per stage key, the frames kept, oldest first; a frame is the  *)
(*            number of the capture that made it                            *)
(*   shots    frames captured since the session started                     *)
(*   stage    index of the stage the engine is at                           *)
(*   delay    a completion delay runs for the stage before it               *)
(*   last     the function that ran last, and the stage key it ran for      *)

EVIDENCE_FRAME_COUNT == 15

\* frames captured in one session
MaxShots == 17

NoBuffers == [k \in SeqRange(LIVENESS_STAGES) |-> <<>>]

\* appendStageFrame that never drops a frame
appendStageFrameUncut(buffers, stageKey, frame) ==
    IF IsNull(frame)
    THEN buffers
    ELSE [buffers EXCEPT ![stageKey] = Append(@, Val(frame))]

\* appendStageFrame; frame is what captureFrame returns (None: null)
appendStageFrame(buffers, stageKey, frame) ==
    IF IsNull(frame)
    THEN buffers
    ELSE LET pushed == Append(buffers[stageKey], Val(frame))
             buffer == IF Len(pushed) > EVIDENCE_FRAME_COUNT
                       THEN SubSeq(pushed, Len(pushed) - EVIDENCE_FRAME_COUNT + 1,
                                   Len(pushed))
                       ELSE pushed
         IN  [buffers EXCEPT ![stageKey] = buffer]

\* what resetStageTimer does to the buffers (stageKey None: null)
resetStageTimerBuffers(buffers, stageKey) ==
    IF IsNull(stageKey) THEN buffers
    ELSE [buffers EXCEPT ![Val(stageKey)] = <<>>]

\* what handleStageCompleted leaves of the buffers
handleStageCompletedBuffers(buffers, stageIndex) ==
    IF stageIndex + 1 \in DOMAIN LIVENESS_STAGES
    THEN [buffers EXCEPT ![LIVENESS_STAGES[stageIndex + 1]] = <<>>]
    ELSE buffers

BufferInit ==
    [ buffers |-> NoBuffers, shots |-> 0, stage |-> 0, delay |-> FALSE,
      last |-> [op |-> "none", key |-> None, restarted |-> FALSE] ]

InitBuffer == InitProgram /\ probe = BufferInit

\* the stage key at the index i (None past the last stage)
StageKeyAt(i) ==
    IF i + 1 \in DOMAIN LIVENESS_STAGES THEN Some(LIVENESS_STAGES[i + 1]) ELSE None

\* runLivenessSession: fresh buffers, then resetStageTimer for the first stage
BufRunSession ==
    /\ probe.last.op # "runLivenessSession"
    /\ probe' = [ buffers |-> resetStageTimerBuffers(NoBuffers, StageKeyAt(0)),
                  shots |-> 0, stage |-> 0, delay |-> FALSE,
                  last |-> [op |-> "runLivenessSession", key |-> StageKeyAt(0),
                            restarted |-> FALSE] ]
    /\ UNCHANGED program

\* handleLivenessResult for a frame of the stage the session is at.
\*   done      the frame completed the stage
\*   early     it did so before MIN_STAGE_COMPLETE_MS had passed
\*   restart   the active stage is not the one the timer runs for
\*   captured  captureFrame returned a frame
BufResult(done, early, restart, captured) ==
    /\ probe.last.op # "none"
    /\ probe.shots < MaxShots
    /\ probe.delay \/ probe.stage < Len(LIVENESS_STAGES)
    /\ LET frame == IF captured THEN Some(probe.shots + 1) ELSE None
           shot(p, key) ==
               [p EXCEPT !.buffers = appendStageFrame(@, Val(key), frame),
                         !.shots = IF captured THEN @ + 1 ELSE @,
                         !.last = [op |-> "appendStageFrame", key |-> key,
                                   restarted |-> FALSE]]
           completedKey == StageKeyAt(probe.stage)
           nextKey      == StageKeyAt(probe.stage + 1)
       IN  probe' =
               IF probe.delay
               THEN shot(probe, StageKeyAt(probe.stage - 1))
               ELSE IF done /\ early
               THEN shot([probe EXCEPT !.stage = @ + 1, !.delay = TRUE], completedKey)
               ELSE IF done
               THEN [probe EXCEPT
                        !.stage = @ + 1,
                        !.buffers = handleStageCompletedBuffers(@, probe.stage),
                        !.last = [op |-> "handleStageCompleted", key |-> completedKey,
                                  restarted |-> FALSE]]
               ELSE IF restart
               THEN [shot([probe EXCEPT
                              !.buffers = resetStageTimerBuffers(@, completedKey)],
                          completedKey)
                       EXCEPT !.last.restarted = TRUE]
               ELSE shot(probe, completedKey)
    /\ UNCHANGED program

\* the completion delay runs out: handleStageCompleted for the stage completed
BufDelayFires ==
    /\ probe.delay
    /\ probe' = [probe EXCEPT
                     !.delay = FALSE,
                     !.buffers = handleStageCompletedBuffers(@, probe.stage - 1),
                     !.last = [op |-> "handleStageCompleted",
                               key |-> StageKeyAt(probe.stage - 1),
                               restarted |-> FALSE]]
    /\ UNCHANGED program

\* the cooldown runs out: resetStageTimer for the stage the session is at
BufCooldownFires ==
    /\ probe.last.op = "handleStageCompleted"
    /\ probe' = [probe EXCEPT
                     !.buffers = resetStageTimerBuffers(@, StageKeyAt(probe.stage)),
                     !.last = [op |-> "resetStageTimer", key |-> StageKeyAt(probe.stage),
                               restarted |-> FALSE]]
    /\ UNCHANGED program

NextBuffer ==
    \/ BufRunSession
    \/ \E done, early, restart, captured \in BOOLEAN :
           BufResult(done, early, restart, captured)
    \/ BufDelayFires
    \/ BufCooldownFires

SpecBuffer == InitBuffer /\ [][NextBuffer]_vars

\* C38: a stage's buffer of evidence frames never holds more than
\* EVIDENCE_FRAME_COUNT frames: appendStageFrame adds the captured frame at the
\* end and drops the oldest frame of a full buffer; resetStageTimer for a stage
\* and handleStageCompleted for a stage leave the buffer of that stage empty.
C38_BufferBounded ==
    [][ /\ \A k \in SeqRange(LIVENESS_STAGES) :
              Len(probe'.buffers[k]) <= EVIDENCE_FRAME_COUNT
        /\ (probe'.last.op = "appendStageFrame" /\ probe'.shots > probe.shots) =>
              LET k   == Val(probe'.last.key)
                  old == IF probe'.last.restarted THEN <<>> ELSE probe.buffers[k]
              IN  probe'.buffers[k] =
                      IF Len(old) < EVIDENCE_FRAME_COUNT
                      THEN old \o <<probe'.shots>>
                      ELSE Tail(old) \o <<probe'.shots>>
        /\ (probe'.last.op \in {"resetStageTimer", "handleStageCompleted",
                                "runLivenessSession"}
              /\ ~IsNull(probe'.last.key)) =>
              probe'.buffers[Val(probe'.last.key)] = <<>>
      ]_vars

\* a full buffer whose oldest frames were dropped
C38_Witness ==
    /\ probe.last.op = "appendStageFrame"
    /\ Len(probe.buffers[LIVENESS_STAGES[2]]) = EVIDENCE_FRAME_COUNT
    /\ probe.buffers[LIVENESS_STAGES[2]][1] = 3
    /\ probe.shots = MaxShots

=============================================================================
